---- MODULE Spec2Model ----
(***************************************************************************)
(* Model of utilities/dataset_prep.py: the train/test split of the patient *)
(* record (load_dataset), the record extractor (get_data_dicts), the       *)
(* train/validation split (make_train_val_split,                           *)
(* make_cross_validation_sets) and the data module that wires them         *)
(* together (KidneyDataModule).                                            *)
(*                                                                         *)
(* Conventions.  A Python dict is a sequence of entries in insertion       *)
(* order.  A patient ID is a natural number: its rank in Python's string   *)
(* order, so that comparing two IDs is comparing the numbers.  A date      *)
(* 'YYYY-MM-DD' is the number YYYYMMDD: Python compares the strings, and   *)
(* the numbers order the same way.                                         *)
(***************************************************************************)
EXTENDS Integers, Sequences, FiniteSets, TLC

(***************************************************************************)
(* Bounds of the model.                                                    *)
(***************************************************************************)
\* patients in the JSON record handed to load_dataset
MaxPatients == 10
\* patients of that record that carry a BL_date field
MaxDated == 2
\* sample keys handed to the train/validation split
MaxKeys == 6
\* patients in the record handed to get_data_dicts
MaxExtractPatients == 1
\* sample keys of the data module whose accessors are called
MaxLoaderKeys == 3
\* the greatest value assigned to fold
MaxFold == 3
\* visits in that record, all patients and sides together
MaxVisits == 2

(***************************************************************************)
(* Program constants.                                                      *)
(***************************************************************************)
\* the reserved patient ID 'SU2bae8dc' (dataset_prep.py:237): popped on load
SU2bae8dc == 0
\* '2021-01-01', the baseline date of a patient without BL_date
DefaultBLDate == 20210101
\* the BL_date values the bounded records draw from: one before, one after
\* the default
Dates == {20200615, 20220301}
\* test_prop as a fraction <<numerator, denominator>>; setup passes 0.2
TestProps == {<<1, 5>>, <<1, 2>>}
\* split=0.8, the default train fraction of make_train_val_split
Split == <<4, 5>>
\* the values of args.num_folds the model draws from
NumFolds == {2, 3}

VARIABLES
    pc,         \* position of the running call
    args,       \* the arguments of the running call
    in_dict,    \* the JSON record: patient entries in file order
    train_out,  \* load_dataset's first result
    test_out,   \* load_dataset's second result
    \* get_data_dicts: the dictionaries it builds and the list it returns
    img_dict, label_dict, cov_dict, ids,
    \* KidneyDataModule: the fields setup('fit') assigns
    train_img_dict, train_label_dict, train_cov_dict, train_study_ids,
    train_val_idx_generator, test_set,
    \* KidneyDataModule: the fold selector and the dictionaries the train
    \* and validation accessors drew last (lines 36, 38, 108, 127)
    fold, train_dicts, val_dicts,
    \* what the last call of an accessor, of __getitem__ or of
    \* special_ST_preprocessing returned
    result,
    \* the image files on disk, and the number of files saved
    files,
    \* process_input_image and special_ST_preprocessing: the calls that
    \* have not returned, the innermost last
    calls,
    \* KidneyDataModule: the fields setup('test_heldout') assigns
    st_test_set, stan_test_set, ui_test_set,
    \* get_data_dicts: the local variables of the running call, and the
    \* patients whose processing ended in the except clause of lines 375-378
    frame, caught

loadVars == <<in_dict, train_out, test_out>>
dictVars == <<img_dict, label_dict, cov_dict, ids>>
dmVars == <<train_img_dict, train_label_dict, train_cov_dict,
            train_study_ids, train_val_idx_generator, test_set>>
gdVars == <<frame, caught>>
testVars == <<st_test_set, stan_test_set, ui_test_set>>
useVars == <<fold, train_dicts, val_dicts, result, files, calls, testVars>>
vars == <<pc, args, loadVars, dictVars, dmVars, gdVars, useVars>>

\* Python's None where a dict is expected
None == <<-1>>

\* no record loaded, no dictionary built, the data module as __init__ leaves
\* it (lines 39-40)
NoLoad == in_dict = <<>> /\ train_out = <<>> /\ test_out = <<>>
NoDicts == img_dict = <<>> /\ label_dict = <<>> /\ cov_dict = <<>> /\ ids = <<>>
NoCall == frame = <<>> /\ caught = {}
Unconfigured ==
    /\ train_img_dict = None /\ train_label_dict = None
    /\ train_cov_dict = None /\ train_study_ids = None
    /\ train_val_idx_generator = None
    /\ test_set = None
    /\ fold = 0 /\ train_dicts = None /\ val_dicts = None
    /\ result = None
    /\ calls = <<>>
    /\ st_test_set = None /\ stan_test_set = None /\ ui_test_set = None

\* no image file is looked at
NoFiles == files = <<>>

(***************************************************************************)
(* Python built-ins and sklearn.utils.shuffle.                             *)
(***************************************************************************)
\* Python's order on 2-tuples: by the first component, then by the second
TupleLe(a, b) == a[1] < b[1] \/ (a[1] = b[1] /\ a[2] <= b[2])

\* x inserted into the sorted sequence s behind every element that is not
\* greater: one step of a stable sort
InsertTuple(x, s) ==
    LET k == Cardinality({i \in 1..Len(s) : TupleLe(s[i], x)})
    IN  SubSeq(s, 1, k) \o <<x>> \o SubSeq(s, k + 1, Len(s))

\* sorted(s) for a list s of 2-tuples
sorted(s) ==
    LET F[i \in 0..Len(s)] ==
            IF i = 0 THEN <<>> ELSE InsertTuple(s[i], F[i - 1])
    IN  F[Len(s)]

\* round(n * p) for p = <<num, den>>: Python rounds a tie to the even integer
round(n, p) ==
    LET q == (n * p[1]) \div p[2]
        r == (n * p[1]) % p[2]
    IN  IF 2 * r < p[2] THEN q
        ELSE IF 2 * r > p[2] THEN q + 1
        ELSE IF q % 2 = 0 THEN q ELSE q + 1

\* the permutations of 1..n the model lets a seeded shuffle produce: the
\* rotations (of nothing, the empty one)
ShufflePerms(n) ==
    IF n = 0 THEN {<<>>}
    ELSE {[i \in 1..n |-> ((i + k - 1) % n) + 1] : k \in 0..(n - 1)}

\* sklearn.utils.shuffle(xs, random_state=42): xs permuted by perm, the
\* permutation the seed fixes for a list of this length
shuffle(xs, perm) == [i \in 1..Len(xs) |-> xs[perm[i]]]

(***************************************************************************)
(* load_dataset                                                            *)
(***************************************************************************)
\* the entry of patient study_id in dict d
Entry(d, study_id) ==
    LET i == CHOOSE j \in 1..Len(d) : d[j].study_id = study_id IN d[i]

\* list(d.keys())
Keys(d) == [i \in 1..Len(d) |-> d[i].study_id]

\* lines 237-238: the reserved patient is popped
PopReserved(d) == SelectSeq(d, LAMBDA p : p.study_id # SU2bae8dc)

\* lines 247-250: a patient's baseline date, '2021-01-01' without BL_date
EntryDate(p) == IF p.has_BL_date THEN p.BL_date ELSE DefaultBLDate

\* lines 245-250: the baseline dates, parallel to pt_ids
BL_dates(d) == [i \in 1..Len(d) |-> EntryDate(d[i])]

\* zip(a, b)
zip(a, b) == [i \in 1..Len(a) |-> <<a[i], b[i]>>]

\* the ordered branch with the test loop starting at the split index
OrderedSplitNoGap(d, test_prop) ==
    LET pt_ids == Keys(d)
        n == Len(pt_ids)
        sorted_pt_BL_dates == sorted(zip(pt_ids, BL_dates(d)))
        test_n == round(n, test_prop)
    IN  [train_out |->
            [i \in 1..(n - test_n) |-> Entry(d, sorted_pt_BL_dates[i][1])],
         test_out |->
            [j \in 1..test_n |->
                Entry(d, sorted_pt_BL_dates[n - test_n + j][1])]]

\* lines 253-264: the ordered branch
OrderedSplit(d, test_prop) ==
    LET pt_ids == Keys(d)
        n == Len(pt_ids)
        sorted_pt_BL_dates == sorted(zip(pt_ids, BL_dates(d)))
        test_n == round(n, test_prop)
    IN  [train_out |->
            [i \in 1..(n - test_n) |-> Entry(d, sorted_pt_BL_dates[i][1])],
         test_out |->
            [j \in 1..(IF test_n >= 2 THEN test_n - 1 ELSE 0) |->
                Entry(d, sorted_pt_BL_dates[n - test_n + 1 + j][1])]]

\* lines 266-277: the shuffled branch
ShuffledSplit(d, test_prop, perm) ==
    LET pt_ids == Keys(d)
        n == Len(pt_ids)
        shuffled_pt_id == shuffle(pt_ids, perm)
        test_n == round(n, test_prop)
    IN  [test_out |-> [i \in 1..test_n |-> Entry(d, shuffled_pt_id[i])],
         train_out |->
            [j \in 1..(IF n - test_n >= 2 THEN n - test_n - 1 ELSE 0) |->
                Entry(d, shuffled_pt_id[test_n + 1 + j])]]

\* load_dataset(json_infile, test_prop, data_dir, ordered_split, train_only)
load_dataset(d0, test_prop, ordered_split, train_only, perm) ==
    LET d == PopReserved(d0)
    IN  IF train_only THEN [train_out |-> d, test_out |-> None]
        ELSE IF ordered_split THEN OrderedSplit(d, test_prop)
        ELSE ShuffledSplit(d, test_prop, perm)

(***************************************************************************)
(* The bounded patient records.                                            *)
(***************************************************************************)
\* the IDs 1..n in ascending or descending file order
FileOrders(n) == {[i \in 1..n |-> i], [i \in 1..n |-> n + 1 - i]}

\* n patients, at most MaxDated of them with a BL_date field
DatedRecords(n) ==
    UNION {
        {[i \in 1..n |->
            [study_id |-> ord[i],
             has_BL_date |-> ord[i] \in S,
             BL_date |-> IF ord[i] \in S THEN dt[ord[i]] ELSE 0]]
         : dt \in [S -> Dates], ord \in FileOrders(n)}
        : S \in {T \in SUBSET (1..n) : Cardinality(T) <= MaxDated}}

\* the reserved patient, when the file holds it, comes first
ReservedEntry == [study_id |-> SU2bae8dc, has_BL_date |-> FALSE, BL_date |-> 0]

LoadRecords ==
    UNION {DatedRecords(n) \cup {<<ReservedEntry>> \o d : d \in DatedRecords(n)}
           : n \in 1..MaxPatients}

(***************************************************************************)
(* Specification of one call of load_dataset.                              *)
(***************************************************************************)
InitLoad ==
    /\ pc = "load_dataset"
    /\ in_dict \in LoadRecords
    /\ args \in [test_prop : TestProps, ordered_split : BOOLEAN,
                 train_only : BOOLEAN]
    /\ train_out = <<>>
    /\ test_out = <<>>
    /\ NoDicts
    /\ NoCall
    /\ Unconfigured
    /\ NoFiles

\* the call returns: with train_only or ordered_split no shuffle happens
LoadNoShuffle ==
    /\ pc = "load_dataset"
    /\ args.train_only \/ args.ordered_split
    /\ LET r == load_dataset(in_dict, args.test_prop, args.ordered_split,
                             args.train_only, <<>>)
       IN  /\ train_out' = r.train_out
           /\ test_out' = r.test_out
    /\ pc' = "done"
    /\ UNCHANGED <<args, useVars, in_dict, dictVars, dmVars, gdVars>>

\* the call returns after the seeded shuffle
LoadShuffled ==
    /\ pc = "load_dataset"
    /\ ~args.train_only /\ ~args.ordered_split
    /\ \E perm \in ShufflePerms(Len(PopReserved(in_dict))) :
          LET r == load_dataset(in_dict, args.test_prop, FALSE, FALSE, perm)
          IN  /\ train_out' = r.train_out
              /\ test_out' = r.test_out
    /\ pc' = "done"
    /\ UNCHANGED <<args, useVars, in_dict, dictVars, dmVars, gdVars>>

NextLoad == LoadNoShuffle \/ LoadShuffled

SpecLoad == InitLoad /\ [][NextLoad]_vars

(***************************************************************************)
(* Claims about load_dataset (checked under SpecLoad).                     *)
(***************************************************************************)
\* the patients load_dataset split: the record without the reserved patient
Loaded == PopReserved(in_dict)
IdsOf(d) == {d[i].study_id : i \in 1..Len(d)}
SplitDone == pc = "done" /\ ~args.train_only
TestN == round(Len(Loaded), args.test_prop)

\* C3: with ordered_split the test set is the tail of the baseline-date
\* order: no patient in test has a baseline date earlier than that of a
\* patient in train (a missing date counting as 2021-01-01).
C3_TestIsDateTail ==
    (SplitDone /\ args.ordered_split) =>
        \A i \in 1..Len(train_out) : \A j \in 1..Len(test_out) :
            EntryDate(train_out[i]) <= EntryDate(test_out[j])

\* C4 as stated: with train_only=False, in both branches and for every
\* n >= 1, exactly one patient is in neither set and every other patient is
\* in exactly one of them: |train| + |test| = n - 1.
C4_AlwaysOneDropped ==
    SplitDone =>
        /\ IdsOf(train_out) \cap IdsOf(test_out) = {}
        /\ Cardinality(IdsOf(Loaded) \ (IdsOf(train_out) \cup IdsOf(test_out))) = 1
        /\ Len(train_out) + Len(test_out) = Len(Loaded) - 1

\* C4 amended: train and test never share a patient and hold no patient
\* twice; in the shuffled branch, and in the ordered branch when
\* test_n = round(n * test_prop) >= 1, exactly one patient is in neither
\* (in the ordered branch the one at index n - test_n of the sorted list)
\* and |train| + |test| = n - 1; in the ordered branch with test_n = 0 no
\* patient is dropped: train holds all n patients and test is empty.
C4_OneDroppedUnlessNoTest ==
    SplitDone =>
        LET n == Len(Loaded)
            T == IdsOf(train_out)
            S == IdsOf(test_out)
            dropped == IdsOf(Loaded) \ (T \cup S)
        IN  /\ T \cap S = {}
            /\ Cardinality(T) = Len(train_out)
            /\ Cardinality(S) = Len(test_out)
            /\ T \cup S \subseteq IdsOf(Loaded)
            /\ IF args.ordered_split /\ TestN = 0
               THEN dropped = {} /\ Len(train_out) = n /\ Len(test_out) = 0
               ELSE /\ Cardinality(dropped) = 1
                    /\ Len(train_out) + Len(test_out) = n - 1
                    /\ Len(test_out) = IF args.ordered_split THEN TestN - 1 ELSE TestN
                    /\ args.ordered_split =>
                         \A p \in dropped :
                            Cardinality({q \in IdsOf(Loaded) : q <= p}) = n - TestN + 1

\* C4 witness: the ordered split of 10 patients with test_prop 0.2 has
\* returned 8 train and 1 test patients.
C4_Witness ==
    /\ SplitDone /\ args.ordered_split /\ args.test_prop = <<1, 5>>
    /\ Len(Loaded) = 10 /\ Len(train_out) = 8 /\ Len(test_out) = 1

(***************************************************************************)
(* Python dicts as sequences of [key, val] entries in insertion order.     *)
(***************************************************************************)
Range(s) == {s[i] : i \in 1..Len(s)}
DictKeys(d) == [i \in 1..Len(d) |-> d[i].key]
DictValues(d) == [i \in 1..Len(d) |-> d[i].val]
KeySet(d) == {d[i].key : i \in 1..Len(d)}
HasKey(d, k) == k \in KeySet(d)
Get(d, k) == d[CHOOSE i \in 1..Len(d) : d[i].key = k].val
\* d[k] = v: in place when k is a key of d, appended otherwise
Put(d, k, v) ==
    IF HasKey(d, k)
    THEN [i \in 1..Len(d) |-> IF d[i].key = k THEN [key |-> k, val |-> v] ELSE d[i]]
    ELSE Append(d, [key |-> k, val |-> v])

\* range(n) as the 1-based positions 1..n
range(n) == [i \in 1..n |-> i]

\* math.floor(n * p) for p = <<num, den>>
floor(n, p) == (n * p[1]) \div p[2]
ceil(n, p) == (n * p[1] + p[2] - 1) \div p[2]

(***************************************************************************)
(* make_cross_validation_sets and make_train_val_split.  A fold is the     *)
(* pair <<train_idx, val_idx>> of sequences of positions in the key list,  *)
(* counted from 1 where Python counts from 0.                              *)
(***************************************************************************)
ClassIdx(labels, c) == {i \in 1..Len(labels) : labels[i] = c}
Classes(labels) == Range(labels)

\* StratifiedKFold raises ValueError: more folds than samples, or than the
\* members of every class
KFoldRaises(study_ids, labels, num_folds) ==
    \/ Len(labels) # Len(study_ids)
    \/ num_folds > Len(study_ids)
    \/ \A c \in Classes(labels) :
          num_folds > Cardinality(ClassIdx(labels, c))

\* the fold each sample is tested in, as StratifiedKFold may draw it: the
\* members of a class are dealt over the folds, so that no fold holds two
\* more of a class than another
TestFolds(labels, num_folds) ==
    {tf \in [1..Len(labels) -> 1..num_folds] :
        \A c \in Classes(labels) :
            LET members == ClassIdx(labels, c)
                dealt == [f \in 1..num_folds |->
                            Cardinality({i \in members : tf[i] = f})]
            IN  \A f, g \in 1..num_folds : dealt[f] <= dealt[g] + 1}

\* lines 387-388: list(skf.split(study_ids, labels)) for the
\* drawn test_folds: fold f validates on the samples dealt to f and trains
\* on the others
make_cross_validation_sets(study_ids, labels, num_folds, test_folds) ==
    [f \in 1..num_folds |->
        <<SelectSeq(range(Len(study_ids)), LAMBDA i : test_folds[i] # f),
          SelectSeq(range(Len(study_ids)), LAMBDA i : test_folds[i] = f)>>]

\* line 394: the baseline date of every key; 0 stands for the [] a
\* defaultdict gives
KeyDates(study_ids, covs) ==
    [i \in 1..Len(study_ids) |->
        IF "BL_date" \in DOMAIN Get(covs, study_ids[i])
        THEN Get(covs, study_ids[i]).BL_date ELSE 0]

\* the order of sorted(..., key=lambda x: x[1], reverse=True)
ByDateReversed(a, b) == a[2] >= b[2]

\* Python's order on the second component (key=lambda x: x[1])
ByDate(a, b) == a[2] <= b[2]

\* one step of the stable sort by date
InsertByDate(x, s) ==
    LET k == Cardinality({i \in 1..Len(s) : ByDate(s[i], x)})
    IN  SubSeq(s, 1, k) \o <<x>> \o SubSeq(s, k + 1, Len(s))

\* line 395: sorted(s, key=lambda x: x[1]), stable as Python's sort is
sorted_by_date(s) ==
    LET F[i \in 0..Len(s)] ==
            IF i = 0 THEN <<>> ELSE InsertByDate(s[i], F[i - 1])
    IN  F[Len(s)]

\* lines 399-407: the positions of the keys among the first end_idx of the
\* date order
TrainIdx(study_ids, train_ids) ==
    SelectSeq(range(Len(study_ids)),
              LAMBDA i : study_ids[i] \in Range(train_ids))

\* the validation side taken as the tail of the list
ValIdxTail(study_ids, train_ids) ==
    [j \in 1..(Len(study_ids) - Len(train_ids)) |-> Len(train_ids) + j]

\* lines 403-407: the positions of the other keys
ValIdx(study_ids, train_ids) ==
    SelectSeq(range(Len(study_ids)),
              LAMBDA i : study_ids[i] \notin Range(train_ids))

\* lines 393-412: make_train_val_split with ordered_split=True; perm_t and
\* perm_v are the permutations of the two seeded shuffles
OrderedTrainValSplit(study_ids, covs, split, perm_t, perm_v) ==
    LET date == KeyDates(study_ids, covs)
        sorted_id_date == sorted_by_date(zip(study_ids, date))
        sorted_ids == [i \in 1..Len(sorted_id_date) |-> sorted_id_date[i][1]]
        end_idx == floor(Len(sorted_ids), split)
        train_ids == SubSeq(sorted_ids, 1, end_idx)
        train_idx == TrainIdx(study_ids, train_ids)
        val_idx == ValIdx(study_ids, train_ids)
    IN  <<<<shuffle(train_idx, perm_t), shuffle(val_idx, perm_v)>>>>

\* the ordered split raises: IndexError at line 396 for no key; for a key
\* whose covariates have no BL_date, KeyError at line 394 where they are a
\* dict (per-visit keys), and where they are a defaultdict (sequences), which
\* reads as [], TypeError at line 395 when sorted compares [] with a date
OrderedSplitRaises(study_ids, covs, seq) ==
    LET undated == {i \in 1..Len(study_ids) :
                        "BL_date" \notin DOMAIN Get(covs, study_ids[i])}
    IN  \/ Len(study_ids) = 0
        \/ ~seq /\ undated # {}
        \/ seq /\ undated # {} /\ undated # 1..Len(study_ids)

\* StratifiedShuffleSplit raises ValueError: an empty train side, a class of
\* one member, or a side smaller than the number of classes
ShuffleSplitRaises(study_ids, labels, split) ==
    LET n == Len(study_ids)
        n_train == floor(n, split)
    IN  \/ Len(labels) # n
        \/ n_train = 0
        \/ \E c \in Classes(labels) : Cardinality(ClassIdx(labels, c)) < 2
        \/ n_train < Cardinality(Classes(labels))
        \/ n - n_train < Cardinality(Classes(labels))

\* the train sides StratifiedShuffleSplit(train_size=split) may draw:
\* floor(split * n) samples, each class in proportion
StratifiedTrainSides(labels, split) ==
    LET n == Len(labels)
        n_train == floor(n, split)
    IN  {T \in SUBSET (1..n) :
            /\ Cardinality(T) = n_train
            /\ \A c \in Classes(labels) :
                 LET cnt == Cardinality(ClassIdx(labels, c))
                     got == Cardinality(T \cap ClassIdx(labels, c))
                 IN  got >= (cnt * n_train) \div n
                     /\ got <= (cnt * n_train + n - 1) \div n}

\* lines 414-415: list(sss.split(X, y)) for the drawn train side T: the
\* test side is every other sample
StratifiedTrainValSplit(study_ids, T, perm_t, perm_v) ==
    <<<<shuffle(SelectSeq(range(Len(study_ids)), LAMBDA i : i \in T), perm_t),
        shuffle(SelectSeq(range(Len(study_ids)), LAMBDA i : i \notin T), perm_v)>>>>

\* line 67: validation disabled
NoValidationSplit(study_ids) == <<<<range(Len(study_ids)), <<>>>>>>

\* remove_bl_date without the pop of line 481
keep_bl_date(d) == d

\* lines 477-481: remove_bl_date
remove_bl_date(d) ==
    [i \in 1..Len(d) |->
        [key |-> d[i].key,
         val |-> [f \in (DOMAIN d[i].val) \ {"BL_date"} |-> d[i].val[f]]]]

(***************************************************************************)
(* KidneyDataModule.setup('fit'), lines 58-77: the split of the extractor  *)
(* output into folds.  get_data_dicts has returned img_dict, label_dict,   *)
(* cov_dict and ids (setup's train_img_dict, ..., train_study_ids).        *)
(***************************************************************************)
\* lines 69-77 (and 80): the fold list is stored, the baseline dates are
\* removed in place, the dictionaries become the module's fields
FinishFit(generator) ==
    /\ train_val_idx_generator' = generator
    /\ cov_dict' = remove_bl_date(cov_dict)
    /\ train_img_dict' = img_dict
    /\ train_label_dict' = label_dict
    /\ train_cov_dict' = remove_bl_date(cov_dict)
    /\ train_study_ids' = DictKeys(img_dict)
    /\ pc' = IF args.train_only THEN "ready" ELSE "fit_test"
    /\ UNCHANGED <<args, useVars, loadVars, img_dict, label_dict, ids, test_set, gdVars>>

\* lines 60-62: stratified k-fold
SetupSplitCV ==
    /\ pc = "fit_split"
    /\ args.include_validation /\ args.cv
    /\ ~KFoldRaises(ids, DictValues(label_dict), args.num_folds)
    /\ \E test_folds \in TestFolds(DictValues(label_dict), args.num_folds) :
          FinishFit(make_cross_validation_sets(ids, DictValues(label_dict),
                                               args.num_folds, test_folds))

\* lines 64-65 with ordered_validation: the single ordered split
SetupSplitOrdered ==
    /\ pc = "fit_split"
    /\ args.include_validation /\ ~args.cv /\ args.ordered_validation
    /\ ~OrderedSplitRaises(ids, cov_dict, ~args.single_visit)
    /\ LET n_train == floor(Len(ids), Split)
       IN  \E perm_t \in ShufflePerms(n_train), perm_v \in ShufflePerms(Len(ids) - n_train) :
              FinishFit(OrderedTrainValSplit(ids, cov_dict, Split, perm_t, perm_v))

\* lines 64-65 without ordered_validation: the single stratified-random split
SetupSplitRandom ==
    /\ pc = "fit_split"
    /\ args.include_validation /\ ~args.cv /\ ~args.ordered_validation
    /\ ~ShuffleSplitRaises(ids, DictValues(label_dict), Split)
    /\ LET n_train == floor(Len(ids), Split)
       IN  \E T \in StratifiedTrainSides(DictValues(label_dict), Split),
              perm_t \in ShufflePerms(n_train),
              perm_v \in ShufflePerms(Len(ids) - n_train) :
              FinishFit(StratifiedTrainValSplit(ids, T, perm_t, perm_v))

\* lines 66-67: validation disabled
SetupNoValidation ==
    /\ pc = "fit_split"
    /\ ~args.include_validation
    /\ FinishFit(NoValidationSplit(ids))

\* the split raises and setup ends with it: sklearn's ValueError, or an
\* error of lines 394-396
SetupSplitRaises ==
    /\ pc = "fit_split"
    /\ args.include_validation
    /\ \/ args.cv /\ KFoldRaises(ids, DictValues(label_dict), args.num_folds)
       \/ ~args.cv /\ args.ordered_validation /\ OrderedSplitRaises(ids, cov_dict, ~args.single_visit)
       \/ ~args.cv /\ ~args.ordered_validation
            /\ ShuffleSplitRaises(ids, DictValues(label_dict), Split)
    /\ pc' = "raised"
    /\ UNCHANGED <<args, useVars, loadVars, dictVars, dmVars, gdVars>>

(***************************************************************************)
(* Specification of the split stage of setup('fit') on the bounded         *)
(* extractor outputs.                                                      *)
(***************************************************************************)
\* the sample key of patient i's left kidney, first visit
SplitKey(i) == <<i, "Left", "1">>

\* sklearn stratifies by label
Stratifies(a) == a.include_validation /\ (a.cv \/ ~a.ordered_validation)

\* num_folds is drawn where it is read: with cv; the entries of sequence
\* mode are drawn where no split reads them
SplitArgs ==
    {a \in [include_validation : BOOLEAN, cv : BOOLEAN, num_folds : NumFolds,
            ordered_validation : BOOLEAN, train_only : {TRUE},
            single_visit : BOOLEAN] :
        /\ (a.include_validation /\ a.cv) \/ a.num_folds = 2
        /\ a.single_visit \/ (~a.include_validation /\ ~a.cv)}

\* lines 448-469: the covariate entry of a key with one admitted visit, as
\* assign_covariates leaves it; bl is <<>> for no baseline date
CovEntry(seq, bl) ==
    IF seq
    THEN IF bl = <<>>
         THEN [US_machine |-> <<"X">>, Sex |-> <<1>>, Age_wks |-> <<10>>]
         ELSE [US_machine |-> <<"X">>, Sex |-> <<1>>, Age_wks |-> <<10>>,
               BL_date |-> bl[1]]
    ELSE IF bl = <<>>
         THEN [US_machine |-> "X", Sex |-> 1, Age_wks |-> 10]
         ELSE [US_machine |-> "X", Sex |-> 1, Age_wks |-> 10, BL_date |-> bl[1]]

\* the labels of n keys: where sklearn stratifies by them, k keys of label 0
\* before n - k of label 1 for every k, or the two labels alternating; all
\* 0, all 1 or alternating where no split reads them
KeyLabels(n, a) ==
    IF Stratifies(a)
    THEN {[i \in 1..n |-> IF i <= k THEN 0 ELSE 1] : k \in 0..n}
            \cup {[i \in 1..n |-> i % 2]}
    ELSE {[i \in 1..n |-> 0], [i \in 1..n |-> 1], [i \in 1..n |-> i % 2]}

\* the ordered split is the one that runs
OrderedRuns(a) == a.include_validation /\ ~a.cv /\ a.ordered_validation

\* the baseline dates of n keys, at most MaxDated of them not the default
KeyDates0(n) ==
    UNION {{[i \in 1..n |-> IF i \in S THEN dt[i] ELSE DefaultBLDate]
            : dt \in [S -> Dates]}
           : S \in {T \in SUBSET (1..n) : Cardinality(T) <= MaxDated}}

\* get_data_dicts has returned the dictionaries of at most max_keys keys
InitSplitOf(max_keys) ==
    /\ pc = "fit_split"
    /\ args \in SplitArgs
    /\ NoLoad
    /\ \E n \in 0..max_keys :
          /\ ids = [i \in 1..n |-> SplitKey(i)]
          /\ img_dict = [i \in 1..n |-> [key |-> SplitKey(i), val |-> <<i, "Left", "1">>]]
          /\ \E lb \in KeyLabels(n, args) :
                label_dict = [i \in 1..n |-> [key |-> SplitKey(i), val |-> lb[i]]]
          /\ \E dt \in (IF OrderedRuns(args) THEN KeyDates0(n)
                         ELSE {[i \in 1..n |-> DefaultBLDate]}) :
                cov_dict = [i \in 1..n |->
                    [key |-> SplitKey(i),
                     val |-> CovEntry(~args.single_visit,
                                      IF args.ordered_validation THEN <<dt[i]>>
                                      ELSE <<>>)]]
    /\ NoCall
    /\ Unconfigured
    /\ NoFiles

InitSplit == InitSplitOf(MaxKeys)

NextSplit ==
    \/ SetupSplitCV
    \/ SetupSplitOrdered
    \/ SetupSplitRandom
    \/ SetupNoValidation
    \/ SetupSplitRaises

SpecSplit == InitSplit /\ [][NextSplit]_vars

(***************************************************************************)
(* Claims about the train/validation split (checked under SpecSplit).      *)
(***************************************************************************)
FitSplitDone == pc \in {"ready", "fit_test"}
IdxSet(n) == 1..n

\* C5: in every mode (stratified k-fold, single ordered split, single
\* stratified-random split, validation disabled) the train and validation
\* index sets of every fold are disjoint and together hold every position of
\* the key list exactly once.
C5_FoldsPartitionKeys ==
    FitSplitDone =>
        \A f \in 1..Len(train_val_idx_generator) :
            LET train_idx == train_val_idx_generator[f][1]
                val_idx == train_val_idx_generator[f][2]
            IN  /\ Range(train_idx) \cap Range(val_idx) = {}
                /\ Range(train_idx) \cup Range(val_idx) = IdxSet(Len(train_study_ids))
                /\ Len(train_idx) + Len(val_idx) = Len(train_study_ids)

\* C5 witness: three stratified folds over six keys, each with a validation
\* side.
C5_Witness ==
    /\ FitSplitDone /\ args.include_validation /\ args.cv
    /\ Len(train_study_ids) = 6
    /\ Len(train_val_idx_generator) = 3
    /\ \A f \in 1..3 : Len(train_val_idx_generator[f][2]) = 2

\* C6: the ordered split returns one fold whose train side is exactly the
\* floor(0.8 * n) keys earliest in baseline date (of two keys with one date
\* the one earlier in the key list), the others being the validation side:
\* which side a position is on does not depend on the two shuffles.
C6_OrderedSplitByDate ==
    [][(pc = "fit_split" /\ OrderedRuns(args) /\ pc' \in {"ready", "fit_test"}) =>
        LET n == Len(ids)
            date == [i \in 1..n |-> Get(cov_dict, ids[i]).BL_date]
            T == Range(train_val_idx_generator'[1][1])
            V == Range(train_val_idx_generator'[1][2])
        IN  /\ Len(train_val_idx_generator') = 1
            /\ Len(train_val_idx_generator'[1][1]) = (4 * n) \div 5
            /\ Cardinality(T) = (4 * n) \div 5
            /\ T \cap V = {} /\ T \cup V = 1..n
            /\ \A t \in T : \A v \in V :
                 date[t] < date[v] \/ (date[t] = date[v] /\ t < v)]_vars

\* C6 witness: six keys, the first two with the late date: the train side is
\* the last four positions, and the shuffle has reordered them.
C6_Witness ==
    /\ FitSplitDone /\ OrderedRuns(args)
    /\ Len(train_study_ids) = 6
    /\ Range(train_val_idx_generator[1][1]) = {3, 4, 5, 6}
    /\ train_val_idx_generator[1][1] # <<3, 4, 5, 6>>
    /\ Range(train_val_idx_generator[1][2]) = {1, 2}

(***************************************************************************)
(* The patient record as get_data_dicts reads it.  A patient is a dict     *)
(* with Sex, BL_date and one entry per side; a side is a dict with         *)
(* surgery and one entry per visit number; a visit is a dict with sag,     *)
(* trv, Age_wks and US_machine.  A JSON value is tagged with its type.     *)
(* The record is read as the loops reach it: the patient's keys on         *)
(* entering the patient, the side's keys on entering the side, a visit and *)
(* the patient's Sex when the loop body first reads them.                  *)
(***************************************************************************)
JAbsent == [type |-> "absent", s |-> "", n |-> 0]
\* a field the call has not read yet
JUnread == [type |-> "unread", s |-> "", n |-> 0]
JNull == [type |-> "None", s |-> "", n |-> 0]
JStr(x) == [type |-> "str", s |-> x, n |-> 0]
JInt(x) == [type |-> "int", s |-> "", n |-> x]

\* the Age_wks values of the bounded records
Ages == {-1, 10, 521}

\* a visit with every field, whose images load
GoodVisit(a) ==
    [Age_wks |-> JInt(a), sag |-> TRUE, trv |-> TRUE, US_machine |-> TRUE,
     image |-> "ok"]

\* the visits of the bounded records: a good visit of any age, or the visit
\* of age 10 with one defect: Age_wks absent, "NA" or null; sag, trv or
\* US_machine absent; an image file on which the preprocessing raises
\* AttributeError, AssertionError, or another exception
VisitValues ==
    {GoodVisit(a) : a \in Ages}
    \cup {[GoodVisit(10) EXCEPT !.Age_wks = j] : j \in {JAbsent, JNull, JStr("NA")}}
    \cup {[GoodVisit(10) EXCEPT !.sag = FALSE], [GoodVisit(10) EXCEPT !.trv = FALSE],
          [GoodVisit(10) EXCEPT !.US_machine = FALSE]}
    \cup {[GoodVisit(10) EXCEPT !.image = e] :
            e \in {"AttributeError", "AssertionError", "OSError"}}

\* the visit numbers of the bounded records and their characters
VisitNums == {"1", "11"}
Digits(v) == CASE v = "1" -> <<1>> [] v = "11" -> <<1, 1>>
DigitStr(c) == CASE c = 1 -> "1"
\* iterating over a Python string yields its characters
Chars(v) == [i \in 1..Len(Digits(v)) |-> DigitStr(Digits(v)[i])]

\* Python's order on strings, on the characters of a and b
StrLess(a, b) ==
    LET x == Digits(a)
        y == Digits(b)
    IN  \E k \in 0..Len(x) :
            /\ k <= Len(y)
            /\ \A i \in 1..k : x[i] = y[i]
            /\ \/ k = Len(x) /\ k < Len(y)
               \/ k < Len(x) /\ k < Len(y) /\ x[k + 1] < y[k + 1]

\* sorted(us_nums)[-1]
LastSorted(us_nums) ==
    CHOOSE m \in Range(us_nums) : \A o \in Range(us_nums) : o = m \/ StrLess(o, m)

\* the surgery fields of the bounded records: absent, an integer, a list
SurgeryValues ==
    {[type |-> "absent", n |-> 0, items |-> <<>>],
     [type |-> "int", n |-> 0, items |-> <<>>],
     [type |-> "int", n |-> 1, items |-> <<>>],
     [type |-> "int", n |-> 2, items |-> <<>>],
     [type |-> "list", n |-> 0, items |-> <<JStr("x"), JInt(1), JInt(0)>>],
     [type |-> "list", n |-> 0, items |-> <<JStr("x")>>]}

\* the surgery fields of patient study_id: the patients after the first
\* have no bare label 0
SurgeryValuesOf(study_id) ==
    IF study_id = 1 THEN SurgeryValues
    ELSE SurgeryValues \ {[type |-> "int", n |-> 0, items |-> <<>>]}

\* the sequences of distinct visit numbers of length at most k
NumLists(k) ==
    {q \in UNION {[1..m -> VisitNums] : m \in 0..k} :
        \A i, j \in 1..Len(q) : i # j => q[i] # q[j]}

\* the patients of the bounded Stanford and UIowa files: each is a dict
\* with Sex "M" and the one side Left, which has the label 1 and the one
\* good visit "1"
PlainPatients == {101, 102}

\* the sides of patient study_id in the bounded records: a value that is no
\* dict, or a dict with a surgery field and at most `left` visits
SideValues(study_id, left) ==
    IF study_id \in PlainPatients
    THEN {[is_dict |-> TRUE, surgery |-> [type |-> "int", n |-> 1, items |-> <<>>],
           us_nums |-> <<"1">>]}
    ELSE
    {[is_dict |-> FALSE, surgery |-> [type |-> "absent", n |-> 0, items |-> <<>>],
      us_nums |-> <<>>]}
    \cup {[is_dict |-> TRUE, surgery |-> sg, us_nums |-> q] :
            sg \in SurgeryValuesOf(study_id),
            q \in NumLists(IF left < Cardinality(VisitNums) THEN left
                           ELSE Cardinality(VisitNums))}

\* the patients of the bounded records: a value that is no dict, or a dict
\* with any of the two sides
PatientValues ==
    {[is_dict |-> FALSE, sides |-> <<>>]}
    \cup {[is_dict |-> TRUE, sides |-> sd] :
            sd \in {<<>>, <<"Left">>, <<"Right">>, <<"Left", "Right">>}}

\* the patient study_id in the bounded records
PatientValuesOf(study_id) ==
    IF study_id \in PlainPatients THEN {[is_dict |-> TRUE, sides |-> <<"Left">>]}
    ELSE PatientValues

\* the Sex fields of the bounded records
SexValues == {JAbsent, JStr("M"), JStr("F")}

\* the Sex fields of patient study_id: the patients after the first are not
\* female
SexValuesOf(study_id) ==
    IF study_id = 1 THEN SexValues
    ELSE IF study_id \in PlainPatients THEN {JStr("M")}
    ELSE SexValues \ {JStr("F")}

\* C20: after setup('fit') completes, with ordered_validation on or off, in
\* sequence or single-visit mode, no covariate entry of the train
\* dictionaries contains a BL_date field.
C20_NoBLDateAfterFit ==
    pc \in {"ready", "fit_test", "fit_tested"} =>
        \A i \in 1..Len(train_cov_dict) : "BL_date" \notin DOMAIN train_cov_dict[i].val

\* C20 witness: setup('fit') has completed with ordered_validation on in
\* sequence mode; the entries were made with a BL_date, which the train
\* dictionary no longer has.
C20_Witness ==
    /\ pc = "ready"
    /\ args.ordered_validation
    /\ ~args.single_visit
    /\ Len(train_cov_dict) >= 2
    /\ DOMAIN train_cov_dict[1].val = {"US_machine", "Sex", "Age_wks"}

(***************************************************************************)
(* get_data_dicts                                                          *)
(***************************************************************************)
\* lines 419-430: get_surgery_label; -1 stands for None
get_surgery_label(side) ==
    IF ~side.is_dict THEN -1
    ELSE IF side.surgery.type = "int" THEN side.surgery.n
    ELSE IF side.surgery.type = "list"
    THEN LET s1 == SelectSeq(side.surgery.items, LAMBDA i : i.type = "int")
         IN  IF Len(s1) > 0 THEN s1[1].n ELSE -1
    ELSE -1

\* line 312 binds surgery, but a side without visits is left at line 315
\* whatever it is
SideLabel(sv) == IF Len(sv.us_nums) = 0 THEN -1 ELSE get_surgery_label(sv)

\* lines 331-333: the sample key, as the list of the parts joined by "_"
DictKey(study_id, side, us_num, seq, update_num) ==
    <<study_id, side>> \o (IF seq THEN <<>> ELSE <<us_num>>)
        \o (IF update_num = "None" THEN <<>> ELSE <<update_num>>)

\* np.stack([sag_img, trv_img]): the two preprocessed images of a visit
Stack(study_id, side, us_num) == <<study_id, side, us_num>>

\* line 336: the US_machine field of a visit
Machine(study_id, side, us_num) == <<"US_machine", study_id, side, us_num>>

\* assign_images with the list of a sequence replaced by its last element
assign_images_last(d, dict_key, stack, seq) ==
    Put(d, dict_key, IF seq THEN <<stack>> ELSE stack)

\* the two codes of lines 456, 466 exchanged
SexCodeExchanged(sex) == IF sex.type = "int" THEN sex.n ELSE IF sex.s = "M" THEN 2 ELSE 1

\* lines 453-456, 463-466: Sex as stored
SexCode(sex) == IF sex.type = "int" THEN sex.n ELSE IF sex.s = "M" THEN 1 ELSE 2

\* lines 433-445: assign_images with split_view=False
assign_images(d, dict_key, stack, seq) ==
    IF ~seq THEN Put(d, dict_key, stack)
    ELSE Put(d, dict_key, Append(Get(d, dict_key), stack))

\* a defaultdict(list) read at a field it may lack
FieldList(c, f) == IF f \in DOMAIN c THEN c[f] ELSE <<>>

\* c[f] = v for a dict c
SetField(c, f, v) == [g \in (DOMAIN c) \cup {f} |-> IF g = f THEN v ELSE c[g]]

\* lines 448-469: assign_covariates; bl is <<>> for None
assign_covariates(d, dict_key, machine, sex, age_wks, seq, bl) ==
    LET c0 == Get(d, dict_key)
        c1 == IF ~seq
              THEN SetField(SetField(SetField(c0, "US_machine", machine),
                                     "Sex", SexCode(sex)), "Age_wks", age_wks)
              ELSE SetField(SetField(SetField(c0,
                        "US_machine", Append(FieldList(c0, "US_machine"), machine)),
                        "Sex", Append(FieldList(c0, "Sex"), SexCode(sex))),
                        "Age_wks", Append(FieldList(c0, "Age_wks"), age_wks))
        c2 == IF bl # <<>> THEN SetField(c1, "BL_date", bl[1]) ELSE c1
    IN  Put(d, dict_key, c2)

\* lines 353-356: the key is initialised where it is new
InitKey(d, dict_key) == IF HasKey(d, dict_key) THEN d ELSE Put(d, dict_key, <<>>)

\* the condition of line 323 without its second line
UnusableAgeOnly(v) == v.Age_wks.type = "None" \/ v.Age_wks = JStr("NA")

\* lines 323-324: Age_wks in ["NA", None], or sag and trv not both keys
Unusable(v) == v.Age_wks.type = "None" \/ v.Age_wks = JStr("NA") \/ ~(v.sag /\ v.trv)

\* the visit falls under one of the data quality rules: Age_wks "NA" or
\* None, sag or trv absent, a label outside {0, 1}, an age outside [0, 520]
Defect(surgery, v) ==
    \/ v.Age_wks \in {JStr("NA"), JNull}
    \/ ~v.sag
    \/ ~v.trv
    \/ surgery \notin {0, 1}
    \/ v.Age_wks.type = "int" /\ ~(0 <= v.Age_wks.n /\ v.Age_wks.n <= 520)

\* every label passes line 341
InvalidLabelNever(surgery) == FALSE

\* line 341: surgery not in [0, 1]
InvalidLabel(surgery) == surgery \notin {0, 1}

\* the upper limit of line 348 one week later
AgeOutOfRangeLate(age_wks) == age_wks < 0 \/ age_wks > 52 * 10 + 1

\* lines 345-350: a negative age, or one over ten years
AgeOutOfRange(age_wks) == age_wks < 0 \/ age_wks > 52 * 10

\* the loop body with a visit that has no Age_wks skipped at line 325
VisitOutcomeSkipsNoAge(f, present, v, sex) ==
    IF ~present THEN "KeyError us_num"
    ELSE IF v.Age_wks.type = "absent" \/ Unusable(v) THEN "continue"
    ELSE IF ~v.US_machine THEN "KeyError US_machine"
    ELSE IF sex.type = "absent" THEN "KeyError Sex"
    ELSE IF f.include_baseline_date /\ ~f.has_BL_date THEN "KeyError BL_date"
    ELSE IF InvalidLabel(f.surgery) THEN "continue"
    ELSE IF v.Age_wks.type = "str" THEN "TypeError"
    ELSE IF AgeOutOfRange(v.Age_wks.n) THEN "continue"
    ELSE IF v.image \in {"AttributeError", "AssertionError", "OSError"} THEN v.image
    ELSE "assign"

\* lines 322-364: what the loop body does with visit us_num of the current
\* side.  present: us_num is a key of the side; v: the visit; sex: the
\* patient's Sex
VisitOutcome(f, present, v, sex) ==
    IF ~present THEN "KeyError us_num"
    ELSE IF v.Age_wks.type = "absent" THEN "KeyError Age_wks"
    ELSE IF Unusable(v) THEN "continue"
    ELSE IF ~v.US_machine THEN "KeyError US_machine"
    ELSE IF sex.type = "absent" THEN "KeyError Sex"
    ELSE IF f.include_baseline_date /\ ~f.has_BL_date THEN "KeyError BL_date"
    ELSE IF InvalidLabel(f.surgery) THEN "continue"
    ELSE IF v.Age_wks.type = "str" THEN "TypeError"
    ELSE IF AgeOutOfRange(v.Age_wks.n) THEN "continue"
    ELSE IF v.image \in {"AttributeError", "AssertionError", "OSError"} THEN v.image
    ELSE "assign"

\* the call's frame on entry; ret: where the caller goes on
EnterCall(d, a, ret) ==
    [ret |-> ret, seq |-> a.seq, last_visit_only |-> a.last_visit_only,
     include_baseline_date |-> a.include_baseline_date,
     silent_trial |-> a.silent_trial, update_num |-> a.update_num,
     patients |-> d, study_id |-> 0, Sex |-> JUnread,
     has_BL_date |-> FALSE, BL_date |-> 0,
     sides |-> <<>>, side |-> "", surgery |-> -1, keys |-> <<>>,
     us_nums |-> <<>>, us_num |-> "", read |-> <<>>, visited |-> <<>>,
     age_read |-> "", age_wks |-> JUnread, handled |-> "", exc |-> "",
     skipped |-> FALSE, all_skipped |-> FALSE, skipped_side |-> <<>>,
     visits_left |-> MaxVisits]

\* the loops move on: to the next visit, else the next side, else the next
\* patient
Advance(f) ==
    IF f.us_nums # <<>> THEN "gd_visit"
    ELSE IF f.sides # <<>> THEN "gd_side"
    ELSE "gd_patient"

\* the frame between two patients: the next iteration of line 308 binds the
\* locals of the loop body again before it reads any of them; sex and
\* age_wks are kept as bound by a last visit that was admitted; skipped_side
\* records the side just left where every visit of it had a defect
NextIteration(f) ==
    [f EXCEPT !.study_id = 0, !.has_BL_date = FALSE,
              !.skipped_side = IF f.all_skipped THEN <<f.study_id, f.side>> ELSE <<>>,
              !.all_skipped = FALSE,
              !.Sex = IF f.age_wks = JUnread THEN JUnread ELSE f.Sex,
              !.BL_date = 0, !.sides = <<>>, !.side = "", !.surgery = -1,
              !.keys = <<>>, !.us_nums = <<>>, !.us_num = "", !.read = <<>>,
              !.visited = <<>>]

\* the frame as the loops move on
Continue(f) == IF Advance(f) = "gd_patient" THEN NextIteration(f) ELSE f

\* an exception that line 375 does not catch leaves get_data_dicts: the
\* frame is gone, the exception is what the caller sees
Raise(f, e) ==
    [NextIteration(f) EXCEPT !.exc = e, !.skipped = FALSE, !.skipped_side = <<>>]

\* lines 375-378: the except clause prints the exception e, which ends the
\* patient
Caught(f, e) ==
    /\ caught' = caught \cup {f.study_id}
    /\ frame' = [NextIteration(f) EXCEPT !.handled = e]
    /\ pc' = "gd_patient"

\* lines 308-310: the next patient; a patient that is no dict raises
\* AttributeError at line 310
GdPatient ==
    /\ pc = "gd_patient"
    /\ frame.patients # <<>>
    /\ \E p \in PatientValuesOf(Head(frame.patients).study_id) :
          LET e == Head(frame.patients)
              f == [frame EXCEPT !.patients = Tail(frame.patients),
                                 !.study_id = e.study_id,
                                 !.has_BL_date = e.has_BL_date,
                                 !.BL_date = e.BL_date,
                                 !.Sex = JUnread, !.sides = p.sides,
                                 !.age_read = "", !.age_wks = JUnread,
                                 !.skipped = FALSE, !.all_skipped = FALSE,
                                 !.skipped_side = <<>>,
                                 !.handled = "", !.us_nums = <<>>]
          IN  IF ~p.is_dict THEN Caught(f, "AttributeError")
              ELSE /\ frame' = Continue(f)
                   /\ pc' = Advance(f)
                   /\ UNCHANGED caught
    /\ UNCHANGED <<args, useVars, loadVars, dictVars, dmVars>>

\* lines 311-319: the next side; a side that is no dict raises
\* AttributeError at line 313
GdSide ==
    /\ pc = "gd_side"
    /\ \E sv \in SideValues(frame.study_id, frame.visits_left) :
          LET surgery == SideLabel(sv)
              f == [frame EXCEPT !.sides = Tail(frame.sides),
                                 !.side = Head(frame.sides),
                                 !.surgery = surgery,
                                 !.keys = IF surgery = -1 THEN <<>> ELSE sv.us_nums,
                                 !.read = <<>>, !.visited = <<>>,
                                 !.skipped = FALSE, !.all_skipped = TRUE,
                                 !.visits_left = frame.visits_left - Len(sv.us_nums),
                                 !.us_nums =
                                    IF Len(sv.us_nums) = 0 \/ surgery = -1 THEN <<>>
                                    ELSE IF frame.last_visit_only
                                    THEN Chars(LastSorted(sv.us_nums))
                                    ELSE sv.us_nums]
          IN  IF ~sv.is_dict THEN Caught(f, "AttributeError")
              ELSE /\ frame' = Continue(f)
                   /\ pc' = Advance(f)
                   /\ UNCHANGED caught
    /\ UNCHANGED <<args, useVars, loadVars, dictVars, dmVars>>

\* the visit the loop body reads: the one read before under this number (it
\* is kept in read where the loop comes to the number again), or any visit
\* of the bounded records
VisitsAt(f, us_num) ==
    IF us_num \in {r[1] : r \in Range(f.read)}
    THEN {r[2] : r \in {q \in Range(f.read) : q[1] = us_num}}
    ELSE IF f.study_id \in PlainPatients THEN {GoodVisit(10)}
    ELSE VisitValues

\* the loop body comes to line 337
ReadsSex(present, v) ==
    /\ present
    /\ v.Age_wks.type \in {"int", "str"} /\ v.Age_wks # JStr("NA")
    /\ v.sag /\ v.trv /\ v.US_machine

\* the Sex the loop body reads at line 337 on visit v: the one read before,
\* or any Sex of the bounded records; where it does not come to line 337,
\* Sex stays as it is
SexAt(f, v) ==
    IF ReadsSex(Head(f.us_nums) \in Range(f.keys), v) /\ f.Sex.type = "unread"
    THEN SexValuesOf(f.study_id) ELSE {f.Sex}

\* line 323: what in_dict[study_id][side][us_num]['Age_wks'] evaluates to
AgeRead(present, v) ==
    IF ~present THEN ""
    ELSE IF v.Age_wks.type = "str" THEN v.Age_wks.s
    ELSE v.Age_wks.type

\* the frame with the loop variable bound to the head of us_nums
Step(f, v, sex) ==
    [f EXCEPT !.us_num = Head(f.us_nums), !.us_nums = Tail(f.us_nums),
              !.age_read = AgeRead(Head(f.us_nums) \in Range(f.keys), v),
              !.Sex = IF ReadsSex(Head(f.us_nums) \in Range(f.keys), v)
                      THEN sex ELSE f.Sex,
              !.age_wks = JUnread,
              !.skipped = Head(f.us_nums) \in Range(f.keys) /\ Defect(f.surgery, v),
              !.all_skipped = f.all_skipped /\ Head(f.us_nums) \in Range(f.keys)
                                /\ Defect(f.surgery, v),
              !.visited = Append(f.visited, Head(f.us_nums)),
              !.read = IF Head(f.us_nums) \in Range(Tail(f.us_nums))
                          /\ Head(f.us_nums) \notin {r[1] : r \in Range(f.read)}
                       THEN Append(f.read, <<Head(f.us_nums), v>>) ELSE f.read]

\* lines 321-350: the visit is skipped
GdVisitSkip ==
    /\ pc = "gd_visit"
    /\ \E v \in VisitsAt(frame, Head(frame.us_nums)) : \E sex \in SexAt(frame, v) :
          /\ VisitOutcome(frame, Head(frame.us_nums) \in Range(frame.keys), v, sex) = "continue"
          /\ frame' = Continue(Step(frame, v, sex))
          /\ pc' = Advance(Step(frame, v, sex))
    /\ UNCHANGED <<args, useVars, loadVars, dictVars, dmVars, caught>>

\* lines 323-329, 336-339: a KeyError leaves get_data_dicts (as does the
\* TypeError of line 345 on an Age_wks that is a string other than "NA")
GdVisitKeyError ==
    /\ pc = "gd_visit"
    /\ \E v \in VisitsAt(frame, Head(frame.us_nums)) : \E sex \in SexAt(frame, v) :
          LET o == VisitOutcome(frame, Head(frame.us_nums) \in Range(frame.keys), v, sex)
          IN  /\ o \in {"KeyError us_num", "KeyError Age_wks", "KeyError US_machine",
                       "KeyError Sex", "KeyError BL_date", "TypeError"}
              /\ frame' = Raise(Step(frame, v, sex), o)
              /\ pc' = "raised"
    /\ UNCHANGED <<args, useVars, loadVars, dictVars, dmVars, caught>>

\* lines 353-364: the key is initialised, then the preprocessing raises: an
\* AttributeError is caught at line 375, an AssertionError at line 377,
\* another exception leaves get_data_dicts
GdVisitImageError ==
    /\ pc = "gd_visit"
    /\ \E v \in VisitsAt(frame, Head(frame.us_nums)) : \E sex \in SexAt(frame, v) :
          LET o == VisitOutcome(frame, Head(frame.us_nums) \in Range(frame.keys), v, sex)
              f == Step(frame, v, sex)
              dict_key == DictKey(f.study_id, f.side, f.us_num, f.seq, f.update_num)
          IN  /\ o \in {"AttributeError", "AssertionError", "OSError"}
              /\ img_dict' = InitKey(img_dict, dict_key)
              /\ cov_dict' = InitKey(cov_dict, dict_key)
              /\ IF o \in {"AttributeError", "AssertionError"} THEN Caught(f, o)
                 ELSE /\ frame' = Raise(f, o)
                      /\ pc' = "raised"
                      /\ UNCHANGED caught
    /\ UNCHANGED <<args, useVars, loadVars, label_dict, ids, dmVars>>

\* lines 371-374: the assertions on the entries just written; -1 stands for
\* the label None
PostAssertsHold(surgery, sex, age_wks) ==
    /\ surgery # -1
    /\ sex.type # "None"
    /\ age_wks.type # "None"

\* lines 331-374: the visit is admitted; a failed assertion is caught at
\* line 377
GdVisitAssign ==
    /\ pc = "gd_visit"
    /\ \E v \in VisitsAt(frame, Head(frame.us_nums)) : \E sex \in SexAt(frame, v) :
          LET f == [Step(frame, v, sex) EXCEPT !.age_wks = v.Age_wks]
              dict_key == DictKey(f.study_id, f.side, f.us_num, f.seq, f.update_num)
          IN  /\ VisitOutcome(frame, Head(frame.us_nums) \in Range(frame.keys), v, sex) = "assign"
              /\ img_dict' = assign_images(InitKey(img_dict, dict_key), dict_key,
                                           Stack(f.study_id, f.side, f.us_num), f.seq)
              /\ label_dict' = Put(label_dict, dict_key, f.surgery)
              /\ cov_dict' = assign_covariates(InitKey(cov_dict, dict_key), dict_key,
                                Machine(f.study_id, f.side, f.us_num), sex,
                                v.Age_wks.n, f.seq,
                                IF f.include_baseline_date THEN <<f.BL_date>> ELSE <<>>)
              /\ IF PostAssertsHold(f.surgery, sex, v.Age_wks)
                 THEN /\ frame' = Continue(f)
                      /\ pc' = Advance(f)
                      /\ UNCHANGED caught
                 ELSE Caught(f, "AssertionError")
    /\ UNCHANGED <<args, useVars, loadVars, ids, dmVars>>

\* lines 380-381: every patient is done
GdReturn ==
    /\ pc = "gd_patient"
    /\ frame.patients = <<>>
    /\ ids' = DictKeys(img_dict)
    /\ frame' = [frame EXCEPT !.age_read = "", !.handled = "", !.skipped = FALSE,
                              !.skipped_side = <<>>]
    /\ pc' = frame.ret
    /\ UNCHANGED <<args, useVars, loadVars, img_dict, label_dict, cov_dict, dmVars, caught>>

NextExtract ==
    \/ GdPatient
    \/ GdSide
    \/ GdVisitSkip
    \/ GdVisitKeyError
    \/ GdVisitImageError
    \/ GdVisitAssign
    \/ GdReturn

(***************************************************************************)
(* Specification of one call of get_data_dicts on the bounded records.     *)
(***************************************************************************)
\* the patients 1..n in file order, each with or without BL_date
ExtractRecords ==
    UNION {{[i \in 1..n |-> [study_id |-> i, has_BL_date |-> h[i],
                             BL_date |-> IF h[i] THEN DefaultBLDate ELSE 0]]
            : h \in [1..n -> BOOLEAN]}
           : n \in 1..MaxExtractPatients}

\* BL_date is read at line 339 only with include_baseline_date
ReadsBLDate(d, a) ==
    a.include_baseline_date \/ \A i \in 1..Len(d) : d[i].has_BL_date

\* the arguments with which the data module calls get_data_dicts: lines
\* 50-53 (sequences or not, baseline date or not), lines 81-82
\* (last_visit_only with single_visit, that is without seq), lines 87-95
\* (the defaults)
ExtractArgs ==
    {a \in [seq : BOOLEAN, last_visit_only : BOOLEAN,
            include_baseline_date : BOOLEAN,
            silent_trial : {FALSE}, update_num : {"None"}] :
        a.last_visit_only => ~a.seq /\ ~a.include_baseline_date}

InitExtract ==
    /\ pc = "gd_patient"
    /\ args \in ExtractArgs
    /\ in_dict \in ExtractRecords
    /\ ReadsBLDate(in_dict, args)
    /\ train_out = <<>> /\ test_out = <<>>
    /\ NoDicts
    /\ Unconfigured
    /\ NoFiles
    /\ frame = EnterCall(in_dict, args, "returned")
    /\ caught = {}

SpecExtract == InitExtract /\ [][NextExtract]_vars

(***************************************************************************)
(* Claims about get_data_dicts, checked under SpecExtract.                 *)
(***************************************************************************)
\* every key of the three dictionaries
AllKeys == KeySet(img_dict) \cup KeySet(label_dict) \cup KeySet(cov_dict)

\* C2: whenever get_data_dicts returns, img_dict, label_dict, cov_dict and
\* the returned id list have the same keys.
C2_KeySetsEqual ==
    pc = "returned" =>
        /\ KeySet(img_dict) = KeySet(label_dict)
        /\ KeySet(label_dict) = KeySet(cov_dict)
        /\ Range(ids) = KeySet(label_dict)

\* C7: with last_visit_only the loop over the visits of a side runs once, on
\* the visit whose number is the lexicographically greatest key of the side.
C7_OnlyLastVisit ==
    pc = "gd_visit" /\ frame.last_visit_only =>
        /\ frame.visited = <<>>
        /\ Head(frame.us_nums) = LastSorted(frame.keys)

C9_CaughtPatientHasNoKey ==
    pc = "returned" => \A k \in AllKeys : k[1] \notin caught

\* C10: get_data_dicts never aborts on a patient without Sex.
C10_NoSexNeverAborts ==
    ~(pc = "raised" /\ frame.exc = "KeyError Sex")

C12_LabelsAreBinary ==
    /\ [](\A i \in 1..Len(label_dict) : label_dict[i].val \in {0, 1})
    /\ [][(pc = "gd_side" \/ (pc = "gd_visit" /\ frame.surgery \notin {0, 1}))
            => UNCHANGED dictVars]_vars

\* C12 witness: a side with label 2 whose first visit, one with an age, has
\* been passed over, its second visit pending: no key has been made.
C12_Witness ==
    /\ pc = "gd_visit"
    /\ frame.surgery = 2
    /\ frame.visited # <<>>
    /\ frame.age_read = "int"
    /\ AllKeys = {}

\* the Age_wks values stored under a key: the list of sequence mode, the one
\* value of per-visit mode, none for a key that was only initialised
StoredAges(c) ==
    IF "Age_wks" \notin DOMAIN c THEN {}
    ELSE IF frame.seq THEN Range(c.Age_wks)
    ELSE {c.Age_wks}

\* C13: every Age_wks stored in cov_dict, scalar or list element, is
\* between 0 and 520.
C13_AgesInRange ==
    pc \in {"gd_patient", "gd_side", "gd_visit", "returned", "raised"} =>
        \A i \in 1..Len(cov_dict) : \A a \in StoredAges(cov_dict[i].val) :
            0 <= a /\ a <= 520

\* C13 witness: sequence mode, a key with the ages of two admitted visits.
C13_Witness ==
    /\ pc = "returned"
    /\ frame.seq
    /\ \E i \in 1..Len(cov_dict) : Len(FieldList(cov_dict[i].val, "Age_wks")) = 2

\* Python's == between two values of any types
Same(x, y) == ToString(x) = ToString(y)

\* a step that admits the single visit of the last side of a patient none of
\* whose sides has made a key, in sequence mode, the patient's Sex being "M"
C14_SingleVisitAdmitted ==
    /\ pc = "gd_visit"
    /\ frame.seq
    /\ AllKeys = {}
    /\ frame.sides = <<>>
    /\ Len(frame.keys) = 1
    /\ frame.visited = <<>>
    /\ label_dict' # label_dict
    /\ pc' = "gd_patient"
    /\ frame'.Sex = JStr("M")

\* the one key "P_S" with the side's label and the visit's age in a
\* one-element list, and the covariate Sex given
C14_OneKey(P, S, l, a, Sex) ==
    LET key == DictKey(P, S, "", TRUE, "None")
    IN  /\ DictKeys(img_dict') = <<key>>
        /\ DictKeys(cov_dict') = <<key>>
        /\ label_dict' = <<[key |-> key, val |-> l]>>
        /\ Len(Get(img_dict', key)) = 1
        /\ Get(cov_dict', key).Age_wks = <<a>>
        /\ Same(Get(cov_dict', key).Sex, Sex)

NoKeyOf(P, S) ==
    \A k \in AllKeys \cup Range(ids) :
        ~(k[1] = P /\ k[2] = S)

\* C15: a visit skipped for data quality (Age_wks "NA" or None, sag or trv
\* absent, label outside {0, 1}, age outside [0, 520]) adds nothing to any
\* dictionary, and a patient-side all of whose visits are skipped has no key
\* in img_dict, label_dict, cov_dict or the id list, in both modes.
C15_SkippedAddsNothing ==
    /\ [][pc = "gd_visit" /\ frame'.skipped => UNCHANGED dictVars]_vars
    /\ [](pc \in {"gd_visit", "gd_side"} /\ frame.side # "" /\ frame.all_skipped
            => NoKeyOf(frame.study_id, frame.side))
    /\ [](pc = "gd_patient" /\ frame.skipped_side # <<>>
            => NoKeyOf(frame.skipped_side[1], frame.skipped_side[2]))
    /\ [][pc = "gd_patient" /\ frame.skipped_side # <<>> /\ pc' = "returned"
            => \A k \in Range(ids') :
                  ~(k[1] = frame.skipped_side[1] /\ k[2] = frame.skipped_side[2])]_vars

\* C15 witness: the Left side of patient 1 has made a key, the only visit of
\* the Right side had Age_wks "NA" and was skipped, and the call returns.
C15_Witness ==
    /\ pc = "gd_patient"
    /\ frame.patients = <<>>
    /\ frame.skipped_side = <<1, "Right">>
    /\ frame.skipped
    /\ frame.age_read = "NA"
    /\ \E k \in AllKeys : k[2] = "Left"

(***************************************************************************)
(* KidneyDataModule.setup('fit'), lines 44-82: load_dataset, get_data_dicts *)
(* on the train record, the split into folds, get_data_dicts on the test   *)
(* record.                                                                 *)
(***************************************************************************)
\* line 47: test_prop=0.2
SetupTestProp == <<1, 5>>

\* lines 50-53: the arguments of the call on the train record
TrainCallArgs(a) ==
    [seq |-> ~a.single_visit, last_visit_only |-> FALSE,
     include_baseline_date |-> a.ordered_validation,
     silent_trial |-> FALSE, update_num |-> "None"]

\* lines 81-82: the arguments of the call on the test record
TestCallArgs(a) ==
    [seq |-> ~a.single_visit, last_visit_only |-> a.single_visit,
     include_baseline_date |-> FALSE,
     silent_trial |-> FALSE, update_num |-> "None"]

\* lines 47-53: load_dataset returns and get_data_dicts is entered on the
\* train record
SetupLoad ==
    /\ pc = "setup"
    /\ \E perm \in (IF args.train_only \/ args.ordered_split THEN {<<>>}
                    ELSE ShufflePerms(Len(PopReserved(in_dict)))) :
          LET r == load_dataset(in_dict, SetupTestProp, args.ordered_split,
                                args.train_only, perm)
          IN  /\ train_out' = r.train_out
              /\ test_out' = r.test_out
              /\ frame' = EnterCall(r.train_out, TrainCallArgs(args), "fit_split")
    /\ pc' = "gd_patient"
    /\ UNCHANGED <<args, useVars, in_dict, dictVars, dmVars, caught>>

\* lines 80-82: get_data_dicts is entered on the test record, with
\* dictionaries of its own
SetupTest ==
    /\ pc = "fit_test"
    /\ img_dict' = <<>> /\ label_dict' = <<>> /\ cov_dict' = <<>> /\ ids' = <<>>
    /\ frame' = EnterCall(test_out, TestCallArgs(args), "fit_tested")
    /\ caught' = {}
    /\ pc' = "gd_patient"
    /\ UNCHANGED <<args, useVars, loadVars, dmVars>>

\* line 81: the result of the call becomes test_set
SetupTestSet ==
    /\ pc = "fit_tested"
    /\ test_set' = <<img_dict, label_dict, cov_dict, ids>>
    /\ pc' = "ready"
    /\ UNCHANGED <<args, useVars, loadVars, dictVars, train_img_dict, train_label_dict,
                   train_cov_dict, train_study_ids, train_val_idx_generator,
                   gdVars>>

\* the arguments of the bounded runs: ordered_split is drawn where line 252
\* reads it, cv with include_validation, num_folds with cv
SetupArgs ==
    {a \in [ordered_split : BOOLEAN, train_only : BOOLEAN, single_visit : BOOLEAN,
            include_validation : BOOLEAN, cv : BOOLEAN, num_folds : NumFolds,
            ordered_validation : BOOLEAN] :
        /\ a.train_only => ~a.ordered_split
        /\ a.cv => a.include_validation
        /\ a.cv \/ a.num_folds = 2}

Init ==
    /\ pc = "setup"
    /\ args \in SetupArgs
    /\ in_dict \in ExtractRecords
    /\ ReadsBLDate(in_dict, TrainCallArgs(args))
    /\ train_out = <<>> /\ test_out = <<>>
    /\ NoDicts
    /\ NoCall
    /\ Unconfigured
    /\ NoFiles

Next ==
    \/ SetupLoad
    \/ GdPatient
    \/ GdSide
    \/ GdVisitSkip
    \/ GdVisitKeyError
    \/ GdVisitImageError
    \/ GdVisitAssign
    \/ GdReturn
    \/ SetupSplitCV
    \/ SetupSplitOrdered
    \/ SetupSplitRandom
    \/ SetupNoValidation
    \/ SetupSplitRaises
    \/ SetupTest
    \/ SetupTestSet

Spec == Init /\ [][Next]_vars

(***************************************************************************)
(* Claims about setup('fit'), checked under Spec.                          *)
(***************************************************************************)
\* the patient-side of a sample key
SideOf(k) == <<k[1], k[2]>>

\* the patient-sides of the keys at the positions idx of the train key list
SidesAt(idx) == {SideOf(train_study_ids[i]) : i \in Range(idx)}

\* C1: after setup('fit'), in every fold no patient-side has keys both at
\* the train and at the validation indices, and no patient-side of the test
\* set has a key in the train dictionaries.
C1_NoSideInTwoSets ==
    pc = "ready" =>
        /\ \A f \in 1..Len(train_val_idx_generator) :
              SidesAt(train_val_idx_generator[f][1])
                \cap SidesAt(train_val_idx_generator[f][2]) = {}
        /\ test_set # None =>
              {SideOf(k) : k \in Range(test_set[4])}
                \cap {SideOf(k) : k \in Range(train_study_ids)} = {}

\* C16: in the ordered train/validation path (ordered_validation on, so
\* that get_data_dicts is called with include_baseline_date and
\* make_train_val_split with ordered_split) a patient with no BL_date field
\* is given the date 2021-01-01 and extracted like any other patient: the
\* extraction does not end in a KeyError on BL_date.
C16_NoBLDateGetsDefault ==
    ~(args.ordered_validation /\ pc = "raised" /\ frame.exc = "KeyError BL_date")

(***************************************************************************)
(* KidneyDataset.__getitem__, lines 193-210, on a dataset of one sample    *)
(* as get_data_dicts makes it.  A patient ID is modelled here as the       *)
(* sequence of the pieces between its underscores ("ST_12" is              *)
(* <<"ST", "12">>), so that the key of lines 331-333 is                    *)
(* <<pieces, side, ...>>.                                                  *)
(***************************************************************************)
\* the patient IDs of the bounded datasets
ItemIDs == {<<"P1">>, <<"ST", "12">>, <<"A", "Left">>}

\* the Age_wks lists of a key in sequence mode
ItemAges == {<<10>>, <<10, 20>>}

\* line 197: id_.split("_")
split(id_) == id_[1] \o Tail(id_)

\* lines 203-208: the covariates of the item; the type test of line 203
\* tells the scalar of per-visit mode from the list of sequence mode
ItemCovariates(cov, id_, seq) ==
    LET age == IF ~seq THEN <<cov.Age_wks>> ELSE cov.Age_wks
    IN  [Age_wks |-> age,
         Side_L |-> [i \in 1..Len(age) |->
                        IF split(id_)[2] = "Left" THEN 1 ELSE 0]]

\* lines 193-210
GetItem ==
    /\ pc = "getitem"
    /\ \E index \in 0..(Len(ids) - 1) :
          LET id_ == ids[index + 1]
          IN  result' = [img |-> Get(img_dict, id_),
                         cov |-> IF args.include_cov
                                 THEN ItemCovariates(Get(cov_dict, id_), id_, args.seq)
                                 ELSE <<>>,
                         y |-> Get(label_dict, id_),
                         id_ |-> id_]
    /\ pc' = "item"
    /\ UNCHANGED <<args, loadVars, dictVars, dmVars, gdVars, fold, train_dicts,
                   val_dicts, files, calls, testVars>>

\* the dataset of one sample key: any patient ID, side, mode and suffix
InitItem ==
    /\ pc = "getitem"
    /\ args \in [include_cov : BOOLEAN, seq : BOOLEAN]
    /\ NoLoad
    /\ \E P \in ItemIDs, S \in {"Left", "Right"}, us_num \in VisitNums,
          update_num \in {"None", "2"}, l \in {0, 1}, a \in ItemAges :
          LET key == DictKey(P, S, us_num, args.seq, update_num)
          IN  /\ ids = <<key>>
              /\ img_dict = <<[key |-> key,
                               val |-> IF args.seq
                                       THEN [i \in 1..Len(a) |-> Stack(1, S, us_num)]
                                       ELSE Stack(1, S, us_num)]>>
              /\ label_dict = <<[key |-> key, val |-> l]>>
              /\ cov_dict = <<[key |-> key,
                               val |-> IF args.seq
                                       THEN [US_machine |-> [i \in 1..Len(a) |-> "X"],
                                             Sex |-> [i \in 1..Len(a) |-> 1],
                                             Age_wks |-> a]
                                       ELSE [US_machine |-> "X", Sex |-> 1,
                                             Age_wks |-> a[1]]]>>
    /\ NoCall
    /\ Unconfigured
    /\ NoFiles

NextItem == GetItem

SpecItem == InitItem /\ [][NextItem]_vars

\* C17: for every sample key the extractor can produce, __getitem__ with
\* include_cov returns a Side_L vector with as many entries as the Age_wks
\* vector, all 1 when the sample's side is Left and all 0 otherwise.
C17_SideLMatchesSide ==
    pc = "item" /\ args.include_cov =>
        result.cov.Side_L = [i \in 1..Len(result.cov.Age_wks) |->
                                IF result.id_[2] = "Left" THEN 1 ELSE 0]

(***************************************************************************)
(* KidneyDataModule.train_dataloader and val_dataloader, lines 97-131,     *)
(* after setup('fit'), with assignments to fold in between.                *)
(***************************************************************************)
\* the first entry whatever the fold
FirstEntry(generator, f) == generator[1]

\* lines 98, 115: self._train_val_idx_generator[self.fold]
FoldEntry(generator, f) == generator[f + 1]

\* lines 99, 116: self.train_study_ids[idx]
TakeIds(idx) == [i \in 1..Len(idx) |-> train_study_ids[idx[i]]]

\* lines 101-103, 121-123: {id: d[id] for id in keys}
Subdict(d, keys) == [i \in 1..Len(keys) |-> [key |-> keys[i], val |-> Get(d, keys[i])]]

\* lines 101-105, 121-124: the dictionaries drawn for the keys
DataDicts(keys) ==
    <<Subdict(train_img_dict, keys), Subdict(train_label_dict, keys),
      Subdict(train_cov_dict, keys), keys>>

\* an assignment to the attribute fold
SetFold ==
    /\ pc = "ready"
    /\ \E f \in 0..MaxFold : fold' = f
    /\ UNCHANGED <<pc, args, loadVars, dictVars, dmVars, gdVars, train_dicts,
                   val_dicts, result, files, calls, testVars>>

\* lines 97-112
TrainDataloader ==
    /\ pc = "ready"
    /\ fold < Len(train_val_idx_generator)
    /\ LET train_idx == FoldEntry(train_val_idx_generator, fold)[1]
           train_dicts_ == DataDicts(TakeIds(train_idx))
       IN  /\ train_dicts' = train_dicts_
           /\ result' = <<"train_dataloader", train_dicts_>>
    /\ UNCHANGED <<pc, args, loadVars, dictVars, dmVars, gdVars, fold, val_dicts,
                   files, calls, testVars>>

\* lines 114-131: None is returned at line 119 where the fold has no
\* validation index
ValDataloader ==
    /\ pc = "ready"
    /\ fold < Len(train_val_idx_generator)
    /\ LET val_idx == FoldEntry(train_val_idx_generator, fold)[2]
           val_dicts_ == DataDicts(TakeIds(val_idx))
       IN  IF Len(val_idx) = 0
           THEN /\ result' = <<"val_dataloader", None>>
                /\ UNCHANGED val_dicts
           ELSE /\ val_dicts' = val_dicts_
                /\ result' = <<"val_dataloader", val_dicts_>>
    /\ UNCHANGED <<pc, args, loadVars, dictVars, dmVars, gdVars, fold, train_dicts,
                   files, calls, testVars>>

\* lines 98, 115: IndexError, fold is beyond the fold list
DataloaderRaises ==
    /\ pc = "ready"
    /\ ~(fold < Len(train_val_idx_generator))
    /\ pc' = "raised"
    /\ UNCHANGED <<args, loadVars, dictVars, dmVars, gdVars, useVars>>

InitLoaders == InitSplitOf(MaxLoaderKeys)

NextLoaders ==
    \/ SetupSplitCV
    \/ SetupSplitOrdered
    \/ SetupSplitRandom
    \/ SetupNoValidation
    \/ SetupSplitRaises
    \/ SetFold
    \/ TrainDataloader
    \/ ValDataloader
    \/ DataloaderRaises

SpecLoaders == InitLoaders /\ [][NextLoaders]_vars

\* the train keys at the positions idx, in that order
KeysAt(idx) == [i \in 1..Len(idx) |-> train_study_ids[idx[i]]]

\* the dictionaries and the id list d hold exactly the keys, each with its
\* entry of the train dictionaries
DrawsExactly(d, keys) ==
    /\ d[4] = keys
    /\ DictKeys(d[1]) = keys /\ DictKeys(d[2]) = keys /\ DictKeys(d[3]) = keys
    /\ \A i \in 1..Len(keys) :
          /\ d[1][i].val = Get(train_img_dict, keys[i])
          /\ d[2][i].val = Get(train_label_dict, keys[i])
          /\ d[3][i].val = Get(train_cov_dict, keys[i])

\* C18: after setup('fit'), assignments to fold and calls of the accessors
\* leave the fold list and the train dictionaries unchanged, and an accessor
\* called with fold = f draws exactly the keys at the train (validation)
\* indices of entry f of the fold list, whatever calls came before (the
\* validation accessor returns None where there is no such index).
C18_AccessorsDrawFold ==
    /\ [][pc = "ready" =>
            UNCHANGED <<train_val_idx_generator, train_img_dict, train_label_dict,
                        train_cov_dict, train_study_ids>>]_vars
    /\ [][pc = "ready" /\ result' # result =>
            /\ fold' = fold
            /\ fold < Len(train_val_idx_generator)
            /\ LET entry == train_val_idx_generator[fold + 1]
               IN  /\ result'[1] = "train_dataloader" =>
                        /\ DrawsExactly(result'[2], KeysAt(entry[1]))
                        /\ train_dicts' = result'[2]
                   /\ result'[1] = "val_dataloader" =>
                        IF entry[2] = <<>> THEN result'[2] = None
                        ELSE /\ DrawsExactly(result'[2], KeysAt(entry[2]))
                             /\ val_dicts' = result'[2]]_vars

\* C18 witness: three folds; the validation accessor was called with fold 2
\* after the train accessor had been called with another fold.
C18_Witness ==
    /\ pc = "ready"
    /\ Len(train_val_idx_generator) = 3
    /\ fold = 2
    /\ Len(result) = 2
    /\ result[1] = "val_dataloader"
    /\ result[2] # None
    /\ train_dicts # None
    /\ train_dicts[4] # KeysAt(train_val_idx_generator[3][1])

(***************************************************************************)
(* special_ST_preprocessing, lines 587-605, and process_input_image,       *)
(* lines 608-621.  A path is the sequence of its components between "/",   *)
(* a component the sequence of its parts between ".", a part a sequence    *)
(* of words.  files is [data: the image of each path, dir: the folder      *)
(* study/Preprocessed/ exists, saves: the number of files saved].          *)
(***************************************************************************)
\* the distinct pictures of the bounded file systems
MaxImages == 2

\* the depth of calls at which the interpreter raises RecursionError
\* (sys.getrecursionlimit(), 1000 in CPython)
RecursionLimit == 4

\* no file
Absent == [pix |-> 0, is256 |-> FALSE, eq |-> FALSE]

\* a folder name, and a file name stem.ext or stem.mid.ext
Dir(name) == <<<<name>>>>
FileName(stem, ext) == <<<<stem>>, <<ext>>>>
FileName3(stem, mid, ext) == <<<<stem>>, <<mid>>, <<ext>>>>

\* data_dir + in_dict[study_id][side][us_num]['sag' / 'trv'], lines
\* 360-364: two views of one visit in the folders sag/ and trv/ of a study,
\* two files of one folder whose names differ after the first dot, and a
\* file under a data directory named preprocessed/
Sources ==
    {<<Dir("study"), Dir("sag"), FileName("1", "png")>>,
     <<Dir("study"), Dir("trv"), FileName("1", "png")>>,
     <<Dir("study"), Dir("sag"), FileName3("a", "x", "png")>>,
     <<Dir("study"), Dir("sag"), FileName3("a", "y", "png")>>,
     <<Dir("preprocessed"), Dir("sag"), FileName("1", "png")>>}

\* line 588: "preprocessed" in img_file
HasPreprocessed(img_file) ==
    \E i \in DOMAIN img_file : \E j \in DOMAIN img_file[i] :
        \E k \in DOMAIN img_file[i][j] : img_file[i][j][k] = "preprocessed"

\* lines 591-595: the name after the last "/", the path without its last
\* two components, and under its Preprocessed/ the name up to its first
\* "." followed by "-preprocessed.png"
out_img_filename(img_file) ==
    LET img_name == img_file[Len(img_file)]
        img_folder == SubSeq(img_file, 1, Len(img_file) - 2)
    IN  img_folder \o <<Dir("Preprocessed"),
                        <<img_name[1] \o <<"-", "preprocessed">>, <<"png">>>>>>

\* the sources that line 588 sends to lines 591-604, the files these lines
\* write, and every path of the bounded file systems
PlainSources == {s \in Sources : ~HasPreprocessed(s)}
CacheFiles == {out_img_filename(s) : s \in PlainSources}
Paths == Sources \cup CacheFiles

\* the test of line 597 always true
CacheMissingAlways(fs, out) == TRUE

\* line 597: not os.path.exists(out_img_filename)
CacheMissing(fs, out) == fs.data[out] = Absent

\* lines 598-603: greyscale, resized to 256 x 256, contrast set
Preprocessed(image) == [pix |-> image.pix, is256 |-> TRUE, eq |-> TRUE]

\* lines 587-605 and 608-621: the file system after the call, what it
\* returns, and the exception that ends it ("" for none).  A name with
\* "preprocessed" goes to process_input_image, which calls back with the
\* same name where the image is not 256 x 256: the recursion has no end
special_ST_preprocessing(fs, img_file) ==
    IF HasPreprocessed(img_file)
    THEN IF fs.data[img_file] = Absent
         THEN [fs |-> fs, ret |-> Absent, exc |-> "FileNotFoundError"]
         ELSE IF fs.data[img_file].is256
         THEN [fs |-> fs, ret |-> fs.data[img_file], exc |-> ""]
         ELSE [fs |-> fs, ret |-> Absent, exc |-> "RecursionError"]
    ELSE LET out == out_img_filename(img_file)
             fs1 == [fs EXCEPT !.dir = TRUE]
         IN  IF CacheMissing(fs1, out)
             THEN IF fs1.data[img_file] = Absent
                  THEN [fs |-> fs1, ret |-> Absent, exc |-> "FileNotFoundError"]
                  ELSE LET fs2 == [fs1 EXCEPT
                                     !.data[out] = Preprocessed(fs1.data[img_file]),
                                     !.saves = fs1.saves + 1]
                       IN  [fs |-> fs2, ret |-> fs2.data[out], exc |-> ""]
             ELSE [fs |-> fs1, ret |-> fs1.data[out], exc |-> ""]

\* the first call
STFirstCall ==
    /\ pc = "st_call1"
    /\ LET r == special_ST_preprocessing(files, args.img_file)
       IN  /\ r.exc = ""
           /\ files' = r.fs
           /\ result' = r.ret
    /\ pc' = "st_call2"
    /\ UNCHANGED <<args, loadVars, dictVars, dmVars, gdVars, fold, train_dicts,
                   val_dicts, calls, testVars>>

\* the second call on the same path
STSecondCall ==
    /\ pc = "st_call2"
    /\ LET r == special_ST_preprocessing(files, args.img_file)
       IN  /\ r.exc = ""
           /\ files' = r.fs
           /\ result' = r.ret
    /\ pc' = "st_done"
    /\ UNCHANGED <<args, loadVars, dictVars, dmVars, gdVars, fold, train_dicts,
                   val_dicts, calls, testVars>>

\* a call that raises
STCallRaises ==
    /\ pc \in {"st_call1", "st_call2"}
    /\ LET r == special_ST_preprocessing(files, args.img_file)
       IN  /\ r.exc # ""
           /\ files' = r.fs
           /\ result' = <<r.exc>>
    /\ pc' = "raised"
    /\ UNCHANGED <<args, loadVars, dictVars, dmVars, gdVars, fold, train_dicts,
                   val_dicts, calls, testVars>>

\* the images a file of the bounded file systems holds: a source as it
\* came, a file named -preprocessed.png as an earlier run left it
RawImages == {[pix |-> k, is256 |-> b, eq |-> FALSE] : k \in 1..MaxImages, b \in BOOLEAN}
CachedImages == {[pix |-> k, is256 |-> b, eq |-> TRUE] : k \in 1..MaxImages, b \in BOOLEAN}
ImagesAt(path) == IF path \in CacheFiles THEN CachedImages ELSE RawImages

\* the file system around one path: the file there or not, and for a path
\* that lines 591-604 handle the file in Preprocessed/ there (from an
\* earlier run, on this source or on another one with the same cache file)
\* or not
FilesAround(img_file) ==
    {[data |-> [p \in Paths |->
                   IF p = img_file THEN src
                   ELSE IF ~HasPreprocessed(img_file) /\ p = out_img_filename(img_file)
                        THEN cached
                        ELSE Absent],
      dir |-> b, saves |-> 0] :
        src \in ImagesAt(img_file) \cup {Absent},
        cached \in IF HasPreprocessed(img_file) THEN {Absent}
                   ELSE CachedImages \cup {Absent},
        b \in IF HasPreprocessed(img_file) THEN {FALSE} ELSE BOOLEAN}

InitCache ==
    /\ pc = "st_call1"
    /\ args \in [img_file : Paths]
    /\ NoLoad
    /\ NoDicts
    /\ NoCall
    /\ Unconfigured
    /\ files \in FilesAround(args.img_file)
    /\ \A p \in CacheFiles : files.data[p] # Absent => files.dir

NextCache ==
    \/ STFirstCall
    \/ STSecondCall
    \/ STCallRaises

SpecCache == InitCache /\ [][NextCache]_vars

\* C19: the second of two calls of special_ST_preprocessing on the same
\* source path finds the cache file, computes and writes nothing, leaves
\* the cache file as the first call left it, and returns the array the
\* first call returned.
C19_SecondCallHitsCache ==
    [][pc = "st_call2" =>
        /\ pc' = "st_done"
        /\ files' = files
        /\ result' = result
        /\ ~HasPreprocessed(args.img_file) =>
              files.data[out_img_filename(args.img_file)] # Absent]_vars

\* C19 witness: the first call has written the cache file, of a source
\* that is not 256 x 256, and the second call has returned.
C19_Witness ==
    /\ pc = "st_done"
    /\ ~HasPreprocessed(args.img_file)
    /\ ~files.data[args.img_file].is256
    /\ files.saves = 1
    /\ result = Preprocessed(files.data[args.img_file])

(***************************************************************************)
(* One call of lines 360-364 followed call by call: process_input_image    *)
(* (lines 608-621) and special_ST_preprocessing (lines 587-605) call each  *)
(* other at lines 589 and 619 with the path they were given.               *)
(***************************************************************************)
\* the innermost call that has not returned
Innermost == calls[Len(calls)]

\* a call at lines 589, 619: one more frame, or RecursionError at the
\* interpreter's limit, which no frame catches
CallFrom(callee) ==
    IF Len(calls) < RecursionLimit
    THEN /\ calls' = Append(calls, callee)
         /\ pc' = "pi_running"
         /\ UNCHANGED <<result, files>>
    ELSE /\ calls' = <<>>
         /\ result' = <<"RecursionError">>
         /\ pc' = "raised"
         /\ UNCHANGED files

\* a return statement of lines 605, 621 with the array my_img
ReturnFrom(my_img) ==
    /\ calls' = SubSeq(calls, 1, Len(calls) - 1)
    /\ result' = my_img
    /\ pc' = IF Len(calls) = 1 THEN "pi_done" ELSE "pi_return"

\* an exception that leaves every frame
RaiseFrom(e) ==
    /\ calls' = <<>>
    /\ result' = <<e>>
    /\ pc' = "raised"

\* lines 359-364: process_input_image with silent_trial,
\* special_ST_preprocessing without
PreprocessEnter ==
    /\ pc = "pi_call"
    /\ calls' = <<IF args.silent_trial THEN "process_input_image"
                  ELSE "special_ST_preprocessing">>
    /\ pc' = "pi_running"
    /\ UNCHANGED <<args, loadVars, dictVars, dmVars, gdVars, fold, train_dicts,
                   val_dicts, result, files, testVars>>

\* lines 616-619: the file is opened; an image that is not 256 x 256 goes
\* to special_ST_preprocessing under the same path
ProcessInputImage ==
    /\ pc = "pi_running"
    /\ Innermost = "process_input_image"
    /\ LET fit_img == files.data[args.img_file]
       IN  IF fit_img = Absent
           THEN RaiseFrom("FileNotFoundError") /\ UNCHANGED files
           ELSE IF fit_img.is256
           THEN ReturnFrom(fit_img) /\ UNCHANGED files
           ELSE CallFrom("special_ST_preprocessing")
    /\ UNCHANGED <<args, loadVars, dictVars, dmVars, gdVars, fold, train_dicts,
                   val_dicts, testVars>>

\* lines 588-604: a path with "preprocessed" goes to process_input_image
\* under the same path; any other path is preprocessed or read from its
\* cache file
SpecialSTPreprocessing ==
    /\ pc = "pi_running"
    /\ Innermost = "special_ST_preprocessing"
    /\ IF HasPreprocessed(args.img_file)
       THEN CallFrom("process_input_image")
       ELSE LET r == special_ST_preprocessing(files, args.img_file)
            IN  /\ files' = r.fs
                /\ IF r.exc = "" THEN ReturnFrom(r.ret) ELSE RaiseFrom(r.exc)
    /\ UNCHANGED <<args, loadVars, dictVars, dmVars, gdVars, fold, train_dicts,
                   val_dicts, testVars>>

\* lines 589 and 605, 619 and 621: the caller returns what its callee
\* returned
PreprocessReturn ==
    /\ pc = "pi_return"
    /\ ReturnFrom(result)
    /\ UNCHANGED <<args, loadVars, dictVars, dmVars, gdVars, fold, train_dicts,
                   val_dicts, files, testVars>>

InitProcess ==
    /\ pc = "pi_call"
    /\ args \in [img_file : Paths, silent_trial : BOOLEAN]
    /\ NoLoad
    /\ NoDicts
    /\ NoCall
    /\ Unconfigured
    /\ files \in FilesAround(args.img_file)
    /\ \A p \in CacheFiles : files.data[p] # Absent => files.dir

NextProcess ==
    \/ PreprocessEnter
    \/ ProcessInputImage
    \/ SpecialSTPreprocessing
    \/ PreprocessReturn

SpecProcess == InitProcess /\ [][NextProcess]_vars

\* C21: process_input_image and special_ST_preprocessing terminate on
\* every image file: for any path, a path that contains "preprocessed"
\* included, and any image size, the mutual calls of the two functions end
\* and the call returns an array; no call on a file that exists ends in
\* RecursionError.
C21_CallReturnsArray ==
    ~(/\ pc = "raised"
      /\ files.data[args.img_file] # Absent
      /\ result = <<"RecursionError">>)

(***************************************************************************)
(* Lines 362-367 on the visits of one record, without silent_trial and     *)
(* without seq: the sag and the trv file of a visit are preprocessed in    *)
(* this order and stacked under the key of the visit.  in_dict is the      *)
(* list of the visits, each with its two paths; the key of a visit is its  *)
(* number.                                                                 *)
(***************************************************************************)
\* the visits of the bounded records
MaxImageVisits == 2

\* the visits: two different source files that line 588 sends to the cache
ImageVisits == {v \in [sag : PlainSources, trv : PlainSources] : v.sag # v.trv}

\* a study folder before any preprocessing: every source is there as it
\* came (of a size that is not 256 x 256), Preprocessed/ is not
FreshFiles ==
    {[data |-> [p \in Paths |-> IF p \in PlainSources
                                THEN [pix |-> pixOf[p], is256 |-> FALSE, eq |-> FALSE]
                                ELSE Absent],
      dir |-> FALSE, saves |-> 0] : pixOf \in [PlainSources -> 1..MaxImages]}

\* lines 363-367 for the next visit
GdImages ==
    /\ pc = "gd_images"
    /\ Len(img_dict) < Len(in_dict)
    /\ LET us_num == Len(img_dict) + 1
           sag_img == special_ST_preprocessing(files, in_dict[us_num].sag)
           trv_img == special_ST_preprocessing(sag_img.fs, in_dict[us_num].trv)
       IN  /\ files' = trv_img.fs
           /\ img_dict' = assign_images(img_dict, us_num,
                                        <<sag_img.ret, trv_img.ret>>, FALSE)
    /\ UNCHANGED <<pc, args, loadVars, label_dict, cov_dict, ids, dmVars, gdVars,
                   fold, train_dicts, val_dicts, result, calls, testVars>>

InitImages ==
    /\ pc = "gd_images"
    /\ args = [silent_trial |-> FALSE, seq |-> FALSE]
    /\ in_dict \in UNION {[1..n -> ImageVisits] : n \in 1..MaxImageVisits}
    /\ train_out = <<>> /\ test_out = <<>>
    /\ NoDicts
    /\ NoCall
    /\ Unconfigured
    /\ files \in FreshFiles

NextImages == GdImages

SpecImages == InitImages /\ [][NextImages]_vars

\* C22: two different source image files never resolve to the same cache
\* file: after the visits of a record have been preprocessed, the image
\* stored for each source is the one computed from that source, not one
\* cached for another source.
C22_EachSourceOwnImage ==
    \A i \in 1..Len(img_dict) :
        LET v == in_dict[img_dict[i].key]
        IN  img_dict[i].val = <<Preprocessed(files.data[v.sag]),
                                Preprocessed(files.data[v.trv])>>

(***************************************************************************)
(* KidneyDataModule.setup('test_heldout'), lines 84-95, and the accessors  *)
(* of the three held-out sets, lines 138-151.  args holds self.args: the   *)
(* content of the three JSON files and include_cov; args.global_args says  *)
(* that the module has a global variable named args, which nothing in the  *)
(* module assigns.                                                         *)
(***************************************************************************)
\* lines 282-289: load_test_dataset
load_test_dataset(json_infile) == PopReserved(json_infile)

\* the content of a held-out file: the patient study_id, after the
\* reserved patient or alone
HeldoutFiles(study_id) ==
    LET p == [study_id |-> study_id, has_BL_date |-> TRUE, BL_date |-> DefaultBLDate]
    IN  {<<p>>, <<[p EXCEPT !.study_id = SU2bae8dc], p>>}

\* lines 87, 91, 95: the arguments of the three calls of get_data_dicts
HeldoutCallArgs(silent_trial) ==
    [seq |-> FALSE, last_visit_only |-> FALSE, include_baseline_date |-> FALSE,
     silent_trial |-> silent_trial, update_num |-> "None"]

\* get_data_dicts is entered on the record d, with dictionaries of its own
HeldoutEnter(d, silent_trial, ret) ==
    /\ in_dict' = d
    /\ img_dict' = <<>> /\ label_dict' = <<>> /\ cov_dict' = <<>> /\ ids' = <<>>
    /\ frame' = EnterCall(d, HeldoutCallArgs(silent_trial), ret)
    /\ caught' = {}
    /\ pc' = "gd_patient"

\* what get_data_dicts has returned
Returned == <<img_dict, label_dict, cov_dict, ids>>

\* lines 86-87: the silent trial file is loaded and get_data_dicts entered
HeldoutST ==
    /\ pc = "setup_heldout"
    /\ HeldoutEnter(load_test_dataset(args.json_st_test), TRUE, "heldout_st")
    /\ UNCHANGED <<args, train_out, test_out, dmVars, useVars>>

\* lines 87-91: the result becomes st_test_set; the Stanford file
HeldoutStan ==
    /\ pc = "heldout_st"
    /\ st_test_set' = Returned
    /\ HeldoutEnter(load_test_dataset(args.json_stan_test), FALSE, "heldout_stan")
    /\ UNCHANGED <<args, train_out, test_out, dmVars, fold, train_dicts, val_dicts,
                   result, files, calls, stan_test_set, ui_test_set>>

\* lines 91-95: the result becomes stan_test_set; the UIowa file
HeldoutUI ==
    /\ pc = "heldout_stan"
    /\ stan_test_set' = Returned
    /\ HeldoutEnter(load_test_dataset(args.json_ui_test), FALSE, "heldout_ui")
    /\ UNCHANGED <<args, train_out, test_out, dmVars, fold, train_dicts, val_dicts,
                   result, files, calls, st_test_set, ui_test_set>>

\* line 95: the result becomes ui_test_set and setup returns
HeldoutDone ==
    /\ pc = "heldout_ui"
    /\ ui_test_set' = Returned
    /\ pc' = "heldout_ready"
    /\ UNCHANGED <<args, loadVars, dictVars, dmVars, gdVars, fold, train_dicts,
                   val_dicts, result, files, calls, st_test_set, stan_test_set>>

\* lines 139, 144, 149: include_cov=args.include_cov reads the name args,
\* which is no local variable and no attribute: NameError unless the module
\* has a global of this name; else a loader over the set
HeldoutLoader(test_set_) ==
    IF args.global_args THEN test_set_ ELSE <<"NameError">>

\* lines 138-141
StTestDataloader ==
    /\ pc = "heldout_ready"
    /\ result' = <<"st_test_dataloader", HeldoutLoader(st_test_set)>>
    /\ UNCHANGED <<pc, args, loadVars, dictVars, dmVars, gdVars, fold, train_dicts,
                   val_dicts, files, calls, testVars>>

\* lines 143-146
StanTestDataloader ==
    /\ pc = "heldout_ready"
    /\ result' = <<"stan_test_dataloader", HeldoutLoader(stan_test_set)>>
    /\ UNCHANGED <<pc, args, loadVars, dictVars, dmVars, gdVars, fold, train_dicts,
                   val_dicts, files, calls, testVars>>

\* lines 148-151
UiTestDataloader ==
    /\ pc = "heldout_ready"
    /\ result' = <<"ui_test_dataloader", HeldoutLoader(ui_test_set)>>
    /\ UNCHANGED <<pc, args, loadVars, dictVars, dmVars, gdVars, fold, train_dicts,
                   val_dicts, files, calls, testVars>>

\* the data module after construction, before any setup
InitHeldout ==
    /\ pc = "setup_heldout"
    /\ args \in [json_st_test : HeldoutFiles(1), json_stan_test : HeldoutFiles(101),
                 json_ui_test : HeldoutFiles(102), global_args : BOOLEAN]
    /\ NoLoad
    /\ NoDicts
    /\ NoCall
    /\ Unconfigured
    /\ NoFiles

NextHeldout ==
    \/ HeldoutST
    \/ HeldoutStan
    \/ HeldoutUI
    \/ HeldoutDone
    \/ GdPatient
    \/ GdSide
    \/ GdVisitSkip
    \/ GdVisitKeyError
    \/ GdVisitImageError
    \/ GdVisitAssign
    \/ GdReturn
    \/ StTestDataloader
    \/ StanTestDataloader
    \/ UiTestDataloader

SpecHeldout == InitHeldout /\ [][NextHeldout]_vars

\* C23: after setup('test_heldout') alone, each of st_test_dataloader,
\* stan_test_dataloader and ui_test_dataloader returns a loader over the
\* extractor output of its own held-out source, with no setup('fit') and no
\* state outside the data module.
C23_HeldoutLoadersReturn ==
    pc = "heldout_ready" /\ Len(result) = 2 =>
        /\ result[1] = "st_test_dataloader" => result[2] = st_test_set
        /\ result[1] = "stan_test_dataloader" => result[2] = stan_test_set
        /\ result[1] = "ui_test_dataloader" => result[2] = ui_test_set

(***************************************************************************)
(* The lists of a key in sequence mode, checked under SpecExtract.         *)
(***************************************************************************)
\* the image list and the Age_wks, Sex and US_machine lists of key k in
\* the dictionaries imgs and covs; empty where k is no key yet
ListsOf(imgs, covs, k) ==
    IF HasKey(imgs, k) /\ HasKey(covs, k)
    THEN [img |-> Get(imgs, k),
          Age_wks |-> FieldList(Get(covs, k), "Age_wks"),
          Sex |-> FieldList(Get(covs, k), "Sex"),
          US_machine |-> FieldList(Get(covs, k), "US_machine")]
    ELSE [img |-> <<>>, Age_wks |-> <<>>, Sex |-> <<>>, US_machine |-> <<>>]

\* the four lists of every key have one length, and position i of the image
\* list and of the US_machine list come from the same visit
ListsAligned ==
    \A k \in KeySet(img_dict) :
        LET l == ListsOf(img_dict, cov_dict, k)
        IN  /\ HasKey(cov_dict, k)
            /\ Len(l.Age_wks) = Len(l.img)
            /\ Len(l.Sex) = Len(l.img)
            /\ Len(l.US_machine) = Len(l.img)
            /\ \A i \in 1..Len(l.img) :
                  \E us_num \in VisitNums :
                     /\ l.img[i] = Stack(k[1], k[2], us_num)
                     /\ l.US_machine[i] = Machine(k[1], k[2], us_num)

\* C24: in sequence mode, after each visit has been processed and when
\* get_data_dicts returns, for every key the image list and the Age_wks,
\* Sex and US_machine lists have the same length, equal to the number of
\* admitted visits of that patient-side, with position i of each list
\* coming from the same visit: an admitted visit appends its image, age,
\* sex code and machine to the four lists of its key, one element each,
\* and no other step changes a list.
C24_ListsGrowWithAdmittedVisits ==
    [][args.seq =>
        /\ ListsAligned'
        /\ IF pc = "gd_visit" /\ frame'.age_wks # JUnread
           THEN LET us_num == Head(frame.us_nums)
                    dict_key == DictKey(frame.study_id, frame.side, us_num, TRUE, "None")
                    old == ListsOf(img_dict, cov_dict, dict_key)
                    new == ListsOf(img_dict', cov_dict', dict_key)
                IN  /\ new.img = Append(old.img, Stack(frame.study_id, frame.side, us_num))
                    /\ new.Age_wks = Append(old.Age_wks, frame'.age_wks.n)
                    /\ new.Sex = Append(old.Sex, SexCode(frame'.Sex))
                    /\ new.US_machine =
                          Append(old.US_machine, Machine(frame.study_id, frame.side, us_num))
                    /\ \A k \in KeySet(img_dict') \ {dict_key} :
                          ListsOf(img_dict', cov_dict', k) = ListsOf(img_dict, cov_dict, k)
           ELSE \A k \in KeySet(img_dict') :
                    ListsOf(img_dict', cov_dict', k) = ListsOf(img_dict, cov_dict, k)]_vars

\* C24 witness: get_data_dicts has returned in sequence mode with a key of
\* two admitted visits, whose lists hold two elements each.
C24_Witness ==
    /\ pc = "returned"
    /\ args.seq
    /\ \E k \in KeySet(img_dict) :
          LET l == ListsOf(img_dict, cov_dict, k)
          IN  Len(l.img) = 2 /\ Len(l.Age_wks) = 2 /\ l.img[1] # l.img[2]

====
